---- MODULE Spec2Model ----
(***************************************************************************)
(* A model of the product aggregation pipeline of ai-product-compare:      *)
(* DataProcessor (deduplicateProducts, mergeProducts, enrichProductData,   *)
(* calculateProductScore, the result cache and its key) and the search     *)
(* route that drives it.                                                   *)
(*                                                                         *)
(* Strings that the code takes apart (titles, brands) are sequences of     *)
(* one-character strings; strings it only copies or compares are TLA+      *)
(* strings.  rating is kept in RatingUnit-ths of a star so that the        *)
(* averages mergeProducts takes stay exact.                                *)
(***************************************************************************)
EXTENDS Integers, Sequences, FiniteSets, TLC

VARIABLES
    \* ---- DataProcessor.aggregateProductData / deduplicateProducts
    googleResults,      \* first argument of aggregateProductData
    amazonResults,      \* second argument of aggregateProductData
    allProducts,        \* the list deduplicateProducts iterates over
    pos,                \* forEach: index of the next product to visit
    uniqueProducts,     \* the Map, as its entries in insertion order
    groups,             \* history, per entry of the Map: the records that
                        \* were merged into its value, in arrival order
    entryPoint,         \* the method that was called
    stage,              \* position in that method
    deduplicatedProducts,   \* what deduplicateProducts returned
    enrichedProducts,       \* what enrichProductData returned
    result,             \* what aggregateProductData returned
    \* ---- DataProcessor.mergeProducts called on its own
    product1, product2, merged,
    \* ---- DataProcessor.calculateProductScore called on its own
    scoredProduct, score,
    \* ---- calculateDiscount (helpers.ts) and AmazonAPIClient.calculateDiscount
    originalPrice, currentPrice, discount, amazonDiscount,
    \* ---- DataProcessor.enrichProductData called on its own
    enrichInput,        \* the product of the one-element list handed in
    enrichOutput,       \* the list returned, <<>> before the call
    \* ---- AmazonAPIClient.searchItems / enforceRateLimit
    clock,              \* Date.now(), in ms
    clockSteps,         \* how often that clock has advanced
    lastRequestTime,    \* this.lastRequestTime
    search,             \* per call of searchItems: where it stands
    upstream,           \* history: Date.now() at every start of performSearch
    \* ---- DataProcessor.generateCacheKey
    keyInput, keyOutput,
    \* ---- the cache store and the callers of cacheResults / getCachedResults
    redis,              \* TRUE when REDIS_URL is set (a client exists)
    now,                \* Date.now(), in ms
    ticks,              \* how often the clock has advanced
    calls,              \* how many cache calls have been started
    store,              \* the store: key -> what it holds
    call,               \* per caller: the cache call in progress
    overlap,            \* TRUE when calls may run concurrently
    applied,            \* history, per key: the entry of the last SETEX applied
    expiredSeen,        \* history, per key: a read found the entry expired
                        \* and no SETEX was applied since
    \* ---- the search and analyze routes
    req                 \* per caller: the request being handled

aggVars   == <<entryPoint, googleResults, amazonResults, allProducts, pos,
               uniqueProducts, groups, stage, deduplicatedProducts,
               enrichedProducts, result>>
mergeVars == <<product1, product2, merged>>
scoreVars == <<scoredProduct, score>>
discountVars == <<originalPrice, currentPrice, discount, amazonDiscount>>
enrichVars == <<enrichInput, enrichOutput>>
rateVars  == <<clock, clockSteps, lastRequestTime, search, upstream>>
keyVars   == <<keyInput, keyOutput>>
cacheVars == <<redis, now, ticks, calls, store, call, overlap, applied, expiredSeen>>
routeVars == <<req>>
vars      == <<aggVars, mergeVars, scoreVars, discountVars, enrichVars,
               rateVars, keyVars, cacheVars, routeVars>>

(***************************************************************************)
(* Bounds of the model.                                                    *)
(***************************************************************************)
MaxProducts == 3        \* longest list handed to deduplicateProducts
MaxTicks == 4           \* how often the clock advances in one behaviour
MaxCalls == 3           \* cache calls started in one behaviour

(***************************************************************************)
(* JavaScript values.                                                      *)
(***************************************************************************)
\* an optional string field that is absent
Undefined == "<undefined>"
\* an optional number field that is absent
UndefinedNum == 0 - 1

Truthy(s) == s # Undefined /\ s # ""
TruthyNum(n) == n # UndefinedNum /\ n # 0

Min(a, b) == IF a < b THEN a ELSE b
Max(a, b) == IF a > b THEN a ELSE b

Range(s) == {s[i] : i \in 1..Len(s)}

\* Array.from(new Set(s)): the first occurrence of every element, in order
RECURSIVE Dedupe(_)
Dedupe(s) ==
    IF s = <<>> THEN <<>>
    ELSE LET front == Dedupe(SubSeq(s, 1, Len(s) - 1))
             last  == s[Len(s)]
         IN  IF last \in Range(front) THEN front ELSE Append(front, last)

(***************************************************************************)
(* Characters.                                                             *)
(***************************************************************************)
UpperCase == <<"A","B","C","D","E","F","G","H","I","J","K","L","M",
               "N","O","P","Q","R","S","T","U","V","W","X","Y","Z">>
LowerCase == <<"a","b","c","d","e","f","g","h","i","j","k","l","m",
               "n","o","p","q","r","s","t","u","v","w","x","y","z">>

\* String.prototype.toLowerCase, one character
LowerChar(c) ==
    IF \E i \in 1..Len(UpperCase) : UpperCase[i] = c
    THEN LowerCase[CHOOSE i \in 1..Len(UpperCase) : UpperCase[i] = c]
    ELSE c

\* String.prototype.toLowerCase
ToLowerCase(s) == [i \in 1..Len(s) |-> LowerChar(s[i])]

\* .replace(/[^a-z0-9]/g, '')
RECURSIVE StripNonAlnum(_)
StripNonAlnum(s) ==
    IF s = <<>> THEN <<>>
    ELSE IF Head(s) \in Range(LowerCase)
                         \cup {"0","1","2","3","4","5","6","7","8","9"}
         THEN <<Head(s)>> \o StripNonAlnum(Tail(s))
         ELSE StripNonAlnum(Tail(s))

\* .slice(0, n)
Slice(s, n) == SubSeq(s, 1, Min(n, Len(s)))

\* .split(/\s+/): the pieces between the runs of white space; a leading or
\* trailing run leaves an empty piece, and the empty string gives [""]
RECURSIVE SplitFrom(_, _, _, _)
SplitFrom(s, i, cur, acc) ==
    IF i > Len(s) THEN Append(acc, cur)
    ELSE IF s[i] = " "
         THEN IF i > 1 /\ s[i - 1] = " "
              THEN SplitFrom(s, i + 1, cur, acc)
              ELSE SplitFrom(s, i + 1, <<>>, Append(acc, cur))
         ELSE SplitFrom(s, i + 1, Append(cur, s[i]), acc)

SplitWhiteSpace(s) == SplitFrom(s, 1, <<>>, <<>>)

\* a sequence of characters as one string
RECURSIVE Text(_)
Text(s) == IF s = <<>> THEN "" ELSE Head(s) \o Text(Tail(s))

(***************************************************************************)
(* Product.  title and brand are sequences of characters (an absent brand  *)
(* is the empty one: the code reads brand only as `brand || ''` and as a   *)
(* truth value); rating is in RatingUnit-ths of a star; an absent          *)
(* originalPrice or discount is UndefinedNum, an absent affiliateLink,     *)
(* asin or category is Undefined; absent pros, cons and images are the     *)
(* empty list, which the code treats alike.                                *)
(***************************************************************************)
RatingUnit == 16 * 10

Tenths(n) == n * (RatingUnit \div 10)

\* the fields every record of the catalog shares
BaseProduct ==
    [id |-> "", title |-> <<>>, description |-> "", price |-> 0,
     currency |-> "USD", images |-> <<>>, rating |-> 0, reviewCount |-> 0,
     features |-> <<>>, pros |-> <<>>, cons |-> <<>>, source |-> "google",
     link |-> "", affiliateLink |-> Undefined, asin |-> Undefined,
     brand |-> <<>>, category |-> Undefined, originalPrice |-> UndefinedNum,
     discount |-> UndefinedNum]

Listing(id, source, title, brand, price, rating) ==
    [BaseProduct EXCEPT !.id = id, !.source = source, !.title = title,
                        !.brand = brand, !.price = price, !.rating = rating,
                        !.link = "link://" \o id]

\* the two records of the specification's end-to-end scenario
SonyGoogle ==
    LET title == <<"S","o","n","y"," ","H","e","a","d","p","h","o","n","e",
                   "s"," ", "X","M","5">>
    IN  Listing("g1", "google", title, <<>>, 398, 0)
SonyAmazon ==
    LET title == <<"S","o","n","y"," ","H","e","a","d","p","h","o","n","e",
                   "s"," ", "X","M","5"," ","W","i","r","e","l","e","s","s">>
    IN  [Listing("a1", "amazon", title, <<>>, 350, Tenths(44))
            EXCEPT !.affiliateLink = "aff://x"]

\* titles of four, five and six words: similarity 4/5, 5/6 and 4/6
IPhoneGoogle ==
    LET title == <<"A","p","p","l","e"," ","i","P","h","o","n","e"," ","1",
                   "6"," ", "P","r","o">>
        brand == <<"A","p","p","l","e">>
    IN  [Listing("g2", "google", title, brand, 999, Tenths(46))
            EXCEPT !.reviewCount = 500, !.features = <<"5G">>]
IPhoneAmazon ==
    LET title == <<"a","p","p","l","e"," ","i","p","h","o","n","e"," ","1",
                   "6"," ", " ","p","r","o"," ","m","a","x">>
        brand == <<"A","p","p","l","e">>
    IN  [Listing("a2", "amazon", title, brand, 949, Tenths(48))
            EXCEPT !.reviewCount = 2000,
                   !.features = <<"5G", "OLED", "5G">>,
                   !.originalPrice = 1099, !.discount = 14,
                   !.affiliateLink = "aff://i", !.asin = "B0IPHONE"]
IPhoneGoogleMax ==
    LET title == <<"A","p","p","l","e"," ","i","P","h","o","n","e"," ","1",
                   "6"," ", "P","r","o"," ","M","a","x"," ","2","5","6","G","B">>
    IN  [Listing("g3", "google", title, <<>>, 0, 0)
            EXCEPT !.features = <<"OLED">>]

\* two titles with no word in common and the same key
GalaxyGoogle ==
    LET title == <<"G","a","l","a","x","y"," ","S","2","4">>
        brand == <<"S","a","m","s","u","n","g">>
    IN  [Listing("g4", "google", title, brand, 799, Tenths(30))
            EXCEPT !.reviewCount = 50, !.features = <<"AI", "OLED", "5G">>,
                   !.originalPrice = 999, !.discount = 20]
GalaxyAmazon ==
    LET title == <<"G","a","l","a","x","y","S"," ","2","4">>
        brand == <<"S","a","m","s","u","n","g">>
    IN  [Listing("a3", "amazon", title, brand, 750, Tenths(41))
            EXCEPT !.reviewCount = 80, !.features = <<"AI">>,
                   !.affiliateLink = ""]

\* a record that scores what SonyGoogle scores, and a cheaper offer of
\* IPhoneGoogle's product
BoseGoogle ==
    LET title == <<"B","o","s","e"," ","Q","C","4","5">>
    IN  Listing("g5", "google", title, <<>>, 329, 0)
IPhoneGoogleSale ==
    LET title == <<"A","p","p","l","e"," ","i","P","h","o","n","e"," ","1",
                   "6"," ", "P","r","o">>
    IN  [Listing("g6", "google", title, <<>>, 899, 0)
            EXCEPT !.originalPrice = 999, !.discount = 10,
                   !.affiliateLink = "aff://g"]

GoogleCatalog ==
    {SonyGoogle, IPhoneGoogle, IPhoneGoogleMax, GalaxyGoogle, BoseGoogle,
     IPhoneGoogleSale}
AmazonCatalog == {SonyAmazon, IPhoneAmazon, GalaxyAmazon}

\* the lists over S of at most n elements
ListsUpTo(S, n) == UNION {[1..k -> S] : k \in 0..n}

(***************************************************************************)
(* DataProcessor.calculateSimilarity: the Jaccard similarity of the two    *)
(* word sets, as the fraction num/den (den is never 0: split returns at    *)
(* least one piece).                                                       *)
(***************************************************************************)
CalculateSimilarity(str1, str2) ==
    LET words1 == Range(SplitWhiteSpace(str1))
        words2 == Range(SplitWhiteSpace(str2))
    IN  [num |-> Cardinality(words1 \cap words2),
         den |-> Cardinality(words1 \cup words2)]

\* titleSimilarityThreshold = 0.8, as the fraction 4/5
ThresholdNum == 4
ThresholdDen == 5

\* a variant with the threshold at 0.75
IsDuplicateOfLoose(product, existingProduct) ==
    LET similarity == CalculateSimilarity(ToLowerCase(product.title),
                                          ToLowerCase(existingProduct.title))
    IN  similarity.num * 4 >= 3 * similarity.den

\* similarity >= titleSimilarityThreshold
IsDuplicateOf(product, existingProduct) ==
    LET similarity == CalculateSimilarity(ToLowerCase(product.title),
                                          ToLowerCase(existingProduct.title))
    IN  similarity.num * ThresholdDen >= ThresholdNum * similarity.den

(***************************************************************************)
(* DataProcessor.mergeProducts.  The average of two ratings is exact as    *)
(* long as a record takes part in at most four averaging merges.           *)
(***************************************************************************)
\* a variant that takes the other's review count with the average
MergeRatingOtherCount(m, p2) ==
    IF m.rating = 0 /\ p2.rating # 0
    THEN [m EXCEPT !.rating = p2.rating, !.reviewCount = p2.reviewCount]
    ELSE IF p2.rating # 0 /\ m.rating # 0
         THEN [m EXCEPT !.rating = (m.rating + p2.rating) \div 2,
                        !.reviewCount = p2.reviewCount]
         ELSE m

MergeRating(m, p2) ==
    IF m.rating = 0 /\ p2.rating # 0
    THEN [m EXCEPT !.rating = p2.rating, !.reviewCount = p2.reviewCount]
    ELSE IF p2.rating # 0 /\ m.rating # 0
         THEN [m EXCEPT !.rating = (m.rating + p2.rating) \div 2,
                        !.reviewCount = Max(m.reviewCount, p2.reviewCount)]
         ELSE m

\* a variant that also takes the union when the lists are equally long
MergeFeaturesNotShorter(m, p2) ==
    IF Len(p2.features) >= Len(m.features)
    THEN [m EXCEPT !.features = Dedupe(m.features \o p2.features)]
    ELSE m

MergeFeatures(m, p2) ==
    IF Len(p2.features) > Len(m.features)
    THEN [m EXCEPT !.features = Dedupe(m.features \o p2.features)]
    ELSE m

MergeDescription(m, p2) ==
    IF m.description = "" /\ p2.description # ""
    THEN [m EXCEPT !.description = p2.description]
    ELSE m

MergeImages(m, p2) ==
    IF Len(p2.images) > 0
    THEN [m EXCEPT !.images = Dedupe(m.images \o p2.images)]
    ELSE m

\* a variant that takes the other's product page with its affiliate link
MergeAffiliateWithLink(m, p2) ==
    IF p2.source = "amazon" /\ Truthy(p2.affiliateLink)
    THEN [m EXCEPT !.affiliateLink = p2.affiliateLink, !.asin = p2.asin,
                   !.link = p2.link]
    ELSE m

\* a variant that takes the link and leaves the asin
MergeAffiliateLinkOnly(m, p2) ==
    IF p2.source = "amazon" /\ Truthy(p2.affiliateLink)
    THEN [m EXCEPT !.affiliateLink = p2.affiliateLink]
    ELSE m

MergeAffiliate(m, p2) ==
    IF p2.source = "amazon" /\ Truthy(p2.affiliateLink)
    THEN [m EXCEPT !.affiliateLink = p2.affiliateLink, !.asin = p2.asin]
    ELSE m

\* a variant that takes the other's price and leaves the rest
MergePriceAlone(m, p2) ==
    IF p2.price # 0 /\ (m.price = 0 \/ p2.price < m.price)
    THEN [m EXCEPT !.price = p2.price]
    ELSE m

\* a variant that also takes the other's pricing when the prices are equal
MergePriceNotHigher(m, p2) ==
    IF p2.price # 0 /\ (m.price = 0 \/ p2.price <= m.price)
    THEN [m EXCEPT !.price = p2.price, !.originalPrice = p2.originalPrice,
                   !.discount = p2.discount]
    ELSE m

MergePrice(m, p2) ==
    IF p2.price # 0 /\ (m.price = 0 \/ p2.price < m.price)
    THEN [m EXCEPT !.price = p2.price, !.originalPrice = p2.originalPrice,
                   !.discount = p2.discount]
    ELSE m

MergeProducts(p1, p2) ==
    MergePrice(
      MergeAffiliate(
        MergeImages(
          MergeDescription(
            MergeFeatures(
              MergeRating(p1, p2), p2), p2), p2), p2), p2)

(***************************************************************************)
(* DataProcessor.generateProductKey.  md5 is taken to be injective: the    *)
(* digest stands for the string it was computed from.                      *)
(***************************************************************************)
KeyPrefixLength == 30

Md5Hex(s) == <<"md5">> \o s

GenerateProductKey(product) ==
    LET normalizedTitle ==
            Slice(StripNonAlnum(ToLowerCase(product.title)), KeyPrefixLength)
    IN  Md5Hex(normalizedTitle \o product.brand)

(***************************************************************************)
(* DataProcessor.deduplicateProducts.  The Map is the sequence of its      *)
(* entries in insertion order; Map.set on a key it holds replaces the      *)
(* value where it stands.                                                  *)
(***************************************************************************)
MapSet(entries, key, value) ==
    IF \E i \in 1..Len(entries) : entries[i].key = key
    THEN [i \in 1..Len(entries) |->
            IF entries[i].key = key THEN [key |-> key, value |-> value]
                                    ELSE entries[i]]
    ELSE Append(entries, [key |-> key, value |-> value])

MapValues(entries) == [i \in 1..Len(entries) |-> entries[i].value]

\* the entries that the loop of lines 30-42 would stop at
DuplicatesOf(entries, product) ==
    {i \in 1..Len(entries) : IsDuplicateOf(product, entries[i].value)}

\* a variant that stores every record under its key and merges none
DedupVisitByKey(entries, product) ==
    MapSet(entries, GenerateProductKey(product), product)

\* a variant that merges into the last entry the loop could stop at
DedupVisitLast(entries, product) ==
    LET dups == DuplicatesOf(entries, product)
    IN  IF dups # {}
        THEN LET i == CHOOSE j \in dups : \A k \in dups : j >= k
             IN  MapSet(entries, entries[i].key,
                        MergeProducts(entries[i].value, product))
        ELSE MapSet(entries, GenerateProductKey(product), product)

\* a variant that merges the stored record into the new one
DedupVisitSwapped(entries, product) ==
    LET dups == DuplicatesOf(entries, product)
    IN  IF dups # {}
        THEN LET i == CHOOSE j \in dups : \A k \in dups : j <= k
             IN  MapSet(entries, entries[i].key,
                        MergeProducts(product, entries[i].value))
        ELSE MapSet(entries, GenerateProductKey(product), product)

\* one run of the forEach callback
DedupVisit(entries, product) ==
    LET dups == DuplicatesOf(entries, product)
    IN  IF dups # {}
        THEN LET i == CHOOSE j \in dups : \A k \in dups : j <= k
             IN  MapSet(entries, entries[i].key,
                        MergeProducts(entries[i].value, product))
        ELSE MapSet(entries, GenerateProductKey(product), product)

\* the records behind each entry after the callback has run on product: a
\* record that is merged joins the entry's records, one that is stored
\* under a key of its own starts an entry, and one that is stored under a
\* key the Map holds takes the place of what was there
GroupsAfter(entries, members, product) ==
    LET dups == DuplicatesOf(entries, product)
        same == {j \in 1..Len(entries) :
                    entries[j].key = GenerateProductKey(product)}
    IN  IF dups # {}
        THEN LET i == CHOOSE j \in dups : \A k \in dups : j <= k
             IN  [members EXCEPT ![i] = Append(@, product)]
        ELSE IF same # {}
             THEN [j \in 1..Len(members) |->
                        IF j \in same THEN <<product>> ELSE members[j]]
             ELSE Append(members, <<product>>)

RECURSIVE DedupFold(_, _, _)
DedupFold(entries, products, i) ==
    IF i > Len(products) THEN entries
    ELSE DedupFold(DedupVisit(entries, products[i]), products, i + 1)

DeduplicateProducts(products) == MapValues(DedupFold(<<>>, products, 1))

(***************************************************************************)
(* DataProcessor.enrichProductData, generatePros, generateCons.            *)
(***************************************************************************)
\* the selected texts, in order
RECURSIVE Selected(_)
Selected(rules) ==
    IF rules = <<>> THEN <<>>
    ELSE IF Head(rules).fires THEN <<Head(rules).text>> \o Selected(Tail(rules))
         ELSE Selected(Tail(rules))

\* a variant that stops at the first rule that fires
GenerateProsFirstOnly(product) ==
    IF product.rating >= Tenths(45) THEN <<"Highly rated by customers">>
    ELSE IF product.reviewCount > 1000
         THEN <<"Extensively reviewed and tested">>
    ELSE IF TruthyNum(product.discount) /\ product.discount > 15
         THEN <<"Great value with " \o ToString(product.discount)
                \o "% discount">>
    ELSE IF Len(product.features) > 5 THEN <<"Feature-rich product">>
    ELSE IF product.brand # <<>>
         THEN <<"Trusted " \o Text(product.brand) \o " brand">>
    ELSE <<"Good value for money">>

GeneratePros(product) ==
    LET pros == Selected(<<
            [fires |-> product.rating >= Tenths(45),
             text  |-> "Highly rated by customers"],
            [fires |-> product.reviewCount > 1000,
             text  |-> "Extensively reviewed and tested"],
            [fires |-> TruthyNum(product.discount) /\ product.discount > 15,
             text  |-> "Great value with " \o ToString(product.discount)
                       \o "% discount"],
            [fires |-> Len(product.features) > 5,
             text  |-> "Feature-rich product"],
            [fires |-> product.brand # <<>>,
             text  |-> "Trusted " \o Text(product.brand) \o " brand"] >>)
    IN  IF Len(pros) > 0 THEN pros ELSE <<"Good value for money">>

GenerateCons(product) ==
    LET cons == Selected(<<
            [fires |-> product.rating < Tenths(35) /\ product.rating > 0,
             text  |-> "Mixed customer reviews"],
            [fires |-> product.reviewCount < 100 /\ product.reviewCount > 0,
             text  |-> "Limited customer feedback"],
            [fires |-> product.price > 500,
             text  |-> "Premium pricing"],
            [fires |-> ~TruthyNum(product.discount) \/ product.discount < 5,
             text  |-> "No significant discounts available"],
            [fires |-> Len(product.features) < 3,
             text  |-> "Basic feature set"] >>)
    IN  IF Len(cons) > 0 THEN cons ELSE <<"May have better alternatives">>

\* a variant that adds the rating tag before the discount tag
EnrichProductRatingTagFirst(product) ==
    LET e1 == IF Len(product.pros) = 0
              THEN [product EXCEPT !.pros = GeneratePros(product)]
              ELSE product
        e2 == IF Len(e1.cons) = 0
              THEN [e1 EXCEPT !.cons = GenerateCons(product)]
              ELSE e1
        e3 == IF e2.rating >= Tenths(45) /\ e2.reviewCount > 1000
              THEN [e2 EXCEPT !.features =
                        <<"Top Rated by Customers">> \o e2.features]
              ELSE e2
        e4 == IF TruthyNum(e3.discount) /\ e3.discount > 10
              THEN [e3 EXCEPT !.features =
                        <<ToString(e3.discount) \o "% OFF - Limited Time">>
                        \o e3.features]
              ELSE e3
    IN  e4

EnrichProduct(product) ==
    LET e1 == IF Len(product.pros) = 0
              THEN [product EXCEPT !.pros = GeneratePros(product)]
              ELSE product
        e2 == IF Len(e1.cons) = 0
              THEN [e1 EXCEPT !.cons = GenerateCons(product)]
              ELSE e1
        e3 == IF TruthyNum(e2.discount) /\ e2.discount > 10
              THEN [e2 EXCEPT !.features =
                        <<ToString(e2.discount) \o "% OFF - Limited Time">>
                        \o e2.features]
              ELSE e2
        e4 == IF e3.rating >= Tenths(45) /\ e3.reviewCount > 1000
              THEN [e3 EXCEPT !.features =
                        <<"Top Rated by Customers">> \o e3.features]
              ELSE e3
    IN  e4

EnrichProductData(products) ==
    [i \in 1..Len(products) |-> EnrichProduct(products[i])]

(***************************************************************************)
(* DataProcessor.calculateProductScore, in ScoreUnit-ths of a point.       *)
(***************************************************************************)
ScoreUnit == RatingUnit * 5

\* a variant with the two bonuses the other way round
PriceTierBonusSwapped(product) ==
    IF product.price # 0 /\ product.price < 100
    THEN 3 * ScoreUnit
    ELSE IF product.price # 0 /\ product.price < 300
         THEN 5 * ScoreUnit
         ELSE 0

\* lines 203-207
PriceTierBonus(product) ==
    IF product.price # 0 /\ product.price < 100
    THEN 5 * ScoreUnit
    ELSE IF product.price # 0 /\ product.price < 300
         THEN 3 * ScoreUnit
         ELSE 0

\* a variant that counts every review
CalculateProductScoreUncapped(product) ==
    (product.rating * 20) * (ScoreUnit \div RatingUnit)
    + (product.reviewCount * ScoreUnit) \div 100
    + (IF TruthyNum(product.discount)
       THEN (product.discount * ScoreUnit) \div 2 ELSE 0)
    + Min(Len(product.features) * 2, 10) * ScoreUnit
    + PriceTierBonus(product)
    + (IF product.source = "amazon" /\ Truthy(product.affiliateLink)
       THEN 5 * ScoreUnit ELSE 0)

CalculateProductScore(product) ==
    LET ratingPart   == (product.rating * 20) * (ScoreUnit \div RatingUnit)
        reviewPart   == IF product.reviewCount # 0
                        THEN Min((product.reviewCount * ScoreUnit) \div 100,
                                 10 * ScoreUnit)
                        ELSE 0
        discountPart == IF TruthyNum(product.discount)
                        THEN (product.discount * ScoreUnit) \div 2
                        ELSE 0
        featurePart  == Min(Len(product.features) * 2, 10) * ScoreUnit
        pricePart    == PriceTierBonus(product)
        sourcePart   == IF product.source = "amazon"
                           /\ Truthy(product.affiliateLink)
                        THEN 5 * ScoreUnit
                        ELSE 0
    IN  ratingPart + reviewPart + discountPart + featurePart + pricePart
        + sourcePart

\* a variant that puts a product before the ones of its score
RECURSIVE SortByScoreUnstable(_)
SortByScoreUnstable(products) ==
    IF products = <<>> THEN <<>>
    ELSE LET front == SortByScoreUnstable(
                        SubSeq(products, 1, Len(products) - 1))
             last  == products[Len(products)]
             keep  == {i \in 1..Len(front) :
                         CalculateProductScore(front[i])
                            > CalculateProductScore(last)}
             n     == IF keep = {} THEN 0
                      ELSE CHOOSE i \in keep : \A j \in keep : j <= i
         IN  SubSeq(front, 1, n) \o <<last>> \o SubSeq(front, n + 1, Len(front))

\* Array.prototype.sort with (a, b) => score(b) - score(a): stable,
\* the higher score first
RECURSIVE SortByScore(_)
SortByScore(products) ==
    IF products = <<>> THEN <<>>
    ELSE LET front == SortByScore(SubSeq(products, 1, Len(products) - 1))
             last  == products[Len(products)]
             keep  == {i \in 1..Len(front) :
                         CalculateProductScore(front[i])
                            >= CalculateProductScore(last)}
             n     == IF keep = {} THEN 0
                      ELSE CHOOSE i \in keep : \A j \in keep : j <= i
         IN  SubSeq(front, 1, n) \o <<last>> \o SubSeq(front, n + 1, Len(front))

(***************************************************************************)
(* DataProcessor.aggregateProductData, one stage at a time.                *)
(***************************************************************************)
\* what aggregateProductData leaves alone
AggFrame == UNCHANGED <<enrichVars, rateVars,
                        mergeVars, scoreVars, discountVars, keyVars,
                        cacheVars, routeVars>>

\* a call of aggregateProductData(googleResults, amazonResults)
AggregateCall ==
    /\ entryPoint = "aggregateProductData"
    /\ googleResults \in ListsUpTo(GoogleCatalog, MaxProducts)
    /\ amazonResults \in ListsUpTo(AmazonCatalog, MaxProducts)
    /\ Len(googleResults) + Len(amazonResults) <= MaxProducts
    /\ allProducts = <<>>
    /\ stage = "start"

\* a call of deduplicateProducts(allProducts), the records in any order
DedupCall ==
    /\ entryPoint = "deduplicateProducts"
    /\ googleResults = <<>>
    /\ amazonResults = <<>>
    /\ allProducts \in ListsUpTo(GoogleCatalog \cup AmazonCatalog,
                                 MaxProducts)
    /\ stage = "dedup"

AggInit ==
    /\ AggregateCall \/ DedupCall
    /\ pos = 1
    /\ uniqueProducts = <<>>
    /\ groups = <<>>
    /\ deduplicatedProducts = <<>>
    /\ enrichedProducts = <<>>
    /\ result = <<>>

AggIdle ==
    /\ entryPoint = "none"
    /\ googleResults = <<>>
    /\ amazonResults = <<>>
    /\ allProducts = <<>>
    /\ pos = 1
    /\ uniqueProducts = <<>>
    /\ groups = <<>>
    /\ stage = "idle"
    /\ deduplicatedProducts = <<>>
    /\ enrichedProducts = <<>>
    /\ result = <<>>

\* line 12
Concat ==
    /\ stage = "start"
    /\ allProducts' = googleResults \o amazonResults
    /\ pos' = 1
    /\ uniqueProducts' = <<>>
    /\ groups' = <<>>
    /\ stage' = "dedup"
    /\ UNCHANGED <<entryPoint, googleResults, amazonResults, deduplicatedProducts,
                   enrichedProducts, result>>
    /\ AggFrame

\* lines 27-48, one product
Visit ==
    /\ stage = "dedup"
    /\ pos <= Len(allProducts)
    /\ uniqueProducts' = DedupVisit(uniqueProducts, allProducts[pos])
    /\ groups' = GroupsAfter(uniqueProducts, groups, allProducts[pos])
    /\ pos' = pos + 1
    /\ UNCHANGED <<entryPoint, googleResults, amazonResults, allProducts, stage,
                   deduplicatedProducts, enrichedProducts, result>>
    /\ AggFrame

\* line 50
DedupReturn ==
    /\ stage = "dedup"
    /\ pos > Len(allProducts)
    /\ deduplicatedProducts' = MapValues(uniqueProducts)
    /\ stage' = IF entryPoint = "deduplicateProducts" THEN "returned"
                                                      ELSE "enrich"
    /\ UNCHANGED <<entryPoint, googleResults, amazonResults, allProducts, pos,
                   uniqueProducts, groups, enrichedProducts, result>>
    /\ AggFrame

\* line 14
Enrich ==
    /\ stage = "enrich"
    /\ enrichedProducts' = EnrichProductData(deduplicatedProducts)
    /\ stage' = "sort"
    /\ UNCHANGED <<entryPoint, googleResults, amazonResults, allProducts, pos,
                   uniqueProducts, groups, deduplicatedProducts, result>>
    /\ AggFrame

\* lines 16-20
Sort ==
    /\ stage = "sort"
    /\ result' = SortByScore(enrichedProducts)
    /\ stage' = "done"
    /\ UNCHANGED <<entryPoint, googleResults, amazonResults, allProducts, pos,
                   uniqueProducts, groups, deduplicatedProducts,
                   enrichedProducts>>
    /\ AggFrame

AggNext == Concat \/ Visit \/ DedupReturn \/ Enrich \/ Sort

\* the whole of aggregateProductData
AggregateProductData(google, amazon) ==
    SortByScore(EnrichProductData(DeduplicateProducts(google \o amazon)))

(***************************************************************************)
(* DataProcessor.mergeProducts on two records of any kind.                 *)
(***************************************************************************)
FeatureLists ==
    {<<>>, <<"5G">>, <<"OLED">>, <<"5G", "OLED">>, <<"OLED", "5G", "AI">>,
     <<"5G", "5G">>}
Pricings ==
    {[price |-> 0, originalPrice |-> UndefinedNum, discount |-> UndefinedNum],
     [price |-> 350, originalPrice |-> 400, discount |-> 13],
     [price |-> 350, originalPrice |-> UndefinedNum, discount |-> UndefinedNum],
     [price |-> 398, originalPrice |-> UndefinedNum, discount |-> UndefinedNum]}
Ratings ==
    {[rating |-> 0, reviewCount |-> 0],
     [rating |-> Tenths(44), reviewCount |-> 120],
     [rating |-> Tenths(40), reviewCount |-> 80]}
Origins ==
    {[source |-> "google", affiliateLink |-> Undefined, asin |-> Undefined],
     [source |-> "amazon", affiliateLink |-> "aff://x", asin |-> "B0X"],
     [source |-> "amazon", affiliateLink |-> Undefined, asin |-> Undefined]}

MergeInputs ==
    {[BaseProduct EXCEPT !.features = f, !.price = p.price,
                         !.originalPrice = p.originalPrice,
                         !.discount = p.discount, !.rating = r.rating,
                         !.reviewCount = r.reviewCount, !.source = o.source,
                         !.affiliateLink = o.affiliateLink, !.asin = o.asin] :
        f \in FeatureLists, p \in Pricings, r \in Ratings, o \in Origins}

NotMerged == [BaseProduct EXCEPT !.id = "<not merged>"]

MergeFrame == UNCHANGED <<enrichVars, rateVars,
                          aggVars, scoreVars, discountVars, keyVars,
                          cacheVars, routeVars>>

MergeInit ==
    /\ product1 \in MergeInputs
    /\ product2 \in MergeInputs
    /\ merged = NotMerged

MergeIdle ==
    /\ product1 = BaseProduct
    /\ product2 = BaseProduct
    /\ merged = BaseProduct

\* lines 63-98
Merge ==
    /\ merged = NotMerged
    /\ merged' = MergeProducts(product1, product2)
    /\ UNCHANGED <<product1, product2>>
    /\ MergeFrame

MergeNext == Merge

(***************************************************************************)
(* DataProcessor.calculateProductScore on a record of any kind.            *)
(***************************************************************************)
MaxFeatures == 6        \* longest feature list handed to the score

ScoreRatings == {0, Tenths(30), Tenths(40), Tenths(45)}
ScoreReviewCounts == {0, 50, 1000, 2500}
ScoreDiscounts == {UndefinedNum, 0, 15}
ScorePrices == {0, 50, 99, 100, 299, 300, 500}
ScoreOrigins ==
    {[source |-> "google", affiliateLink |-> Undefined],
     [source |-> "google", affiliateLink |-> "aff://g"],
     [source |-> "amazon", affiliateLink |-> "aff://x"],
     [source |-> "amazon", affiliateLink |-> Undefined]}

\* k features
FeatureList(k) == [i \in 1..k |-> "feature " \o ToString(i)]

ScoreInputs ==
    {[BaseProduct EXCEPT !.rating = r, !.reviewCount = c, !.discount = d,
                         !.features = FeatureList(k), !.price = p,
                         !.source = o.source,
                         !.affiliateLink = o.affiliateLink] :
        r \in ScoreRatings, c \in ScoreReviewCounts, d \in ScoreDiscounts,
        k \in 0..MaxFeatures, p \in ScorePrices, o \in ScoreOrigins}

NotScored == -1

ScoreFrame == UNCHANGED <<enrichVars, rateVars,
                          aggVars, mergeVars, discountVars, keyVars,
                          cacheVars, routeVars>>

ScoreInit ==
    /\ scoredProduct \in ScoreInputs
    /\ score = NotScored

ScoreIdle ==
    /\ scoredProduct = BaseProduct
    /\ score = NotScored

\* lines 186-214
Score ==
    /\ score = NotScored
    /\ score' = CalculateProductScore(scoredProduct)
    /\ UNCHANGED scoredProduct
    /\ ScoreFrame

ScoreNext == Score

(***************************************************************************)
(* calculateDiscount (utils/helpers.ts) and AmazonAPIClient.calculateDiscount*)
(* on amounts that are whole numbers.  The code computes the percentage in  *)
(* double precision: the quotient is rounded to a double and so is its      *)
(* product with 100.  The result is kept as the exact fraction num/den and  *)
(* the mark short, which says that the double lies below a value of         *)
(* num/den that is halfway between two integers; everywhere else of the     *)
(* amounts tried the double is nearer to num/den than to any such value.    *)
(***************************************************************************)
MaxAmount == 12         \* every amount up to this one is tried

\* the amounts tried: the small ones, and those of the documented cases
Amounts == (0..MaxAmount) \cup {-5, 17, 40, 80, 100, 199, 200, 1000}

\* the pairs <<original, current>> of these amounts at which the double is
\* short of the half: ((40 - 17) / 40) * 100 is 57.49999999999999, the
\* quotient being the double next below 0.575; the other halves (12.5 of
\* 8 and 7, 0.5 of 200 and 199, ...) come out exactly
ShortOfHalf == {<<40, 17>>}

\* ((original - current) / original) * 100
PercentOff(original, current) ==
    [num |-> (original - current) * 100, den |-> original,
     short |-> <<original, current>> \in ShortOfHalf]

NotComputed == -2

\* Math.round(x) for x.den > 0: the nearest integer, the larger one of two
\* that are equally near
MathRound(x) ==
    IF x.short /\ 2 * (x.num % x.den) = x.den
    THEN x.num \div x.den
    ELSE (2 * x.num + x.den) \div (2 * x.den)

\* helpers.ts:178-183
CalculateDiscount(original, current) ==
    IF original <= 0 \/ current <= 0 \/ current >= original
    THEN 0
    ELSE MathRound(PercentOff(original, current))

\* amazonAPI.ts:187-196, on listing?.Price?.Amount and
\* listing?.SavingBasis?.Amount
AmazonCalculateDiscount(current, original) ==
    IF TruthyNum(current) /\ TruthyNum(original) /\ original > current
    THEN MathRound(PercentOff(original, current))
    ELSE UndefinedNum

DiscountFrame == UNCHANGED <<enrichVars, rateVars,
                             aggVars, mergeVars, scoreVars, keyVars,
                             cacheVars, routeVars>>

DiscountInit ==
    /\ originalPrice \in Amounts \cup {UndefinedNum}
    /\ currentPrice \in Amounts \cup {UndefinedNum}
    /\ discount = NotComputed
    /\ amazonDiscount = NotComputed

DiscountIdle ==
    /\ originalPrice = 0
    /\ currentPrice = 0
    /\ discount = NotComputed
    /\ amazonDiscount = NotComputed

\* calculateDiscount(originalPrice, currentPrice) on two numbers
HelperDiscount ==
    /\ discount = NotComputed
    /\ originalPrice # UndefinedNum
    /\ currentPrice # UndefinedNum
    /\ discount' = CalculateDiscount(originalPrice, currentPrice)
    /\ UNCHANGED <<originalPrice, currentPrice, amazonDiscount>>
    /\ DiscountFrame

\* this.calculateDiscount(product) on a listing of the Amazon API: an amount
\* is absent or not negative
ListingDiscount ==
    /\ amazonDiscount = NotComputed
    /\ originalPrice = UndefinedNum \/ originalPrice >= 0
    /\ currentPrice = UndefinedNum \/ currentPrice >= 0
    /\ amazonDiscount' = AmazonCalculateDiscount(currentPrice, originalPrice)
    /\ UNCHANGED <<originalPrice, currentPrice, discount>>
    /\ DiscountFrame

DiscountNext == HelperDiscount \/ ListingDiscount

(***************************************************************************)
(* DataProcessor.enrichProductData called on a list of one product.        *)
(***************************************************************************)
EnrichRatings == {0, Tenths(34), Tenths(35), Tenths(44), Tenths(45)}
EnrichReviewCounts == {0, 99, 100, 1000, 1001}
EnrichDiscounts == {UndefinedNum, 0, 4, 5, 10, 11, 15, 16}
EnrichPrices == {500, 501}
EnrichBrands == {<<>>, <<"S","o","n","y">>}
GivenTexts == {<<>>, <<"as listed">>}

EnrichInputs ==
    {[BaseProduct EXCEPT !.rating = r, !.reviewCount = c, !.discount = d,
                         !.features = FeatureList(k), !.price = p,
                         !.brand = b, !.pros = pros, !.cons = cons] :
        r \in EnrichRatings, c \in EnrichReviewCounts, d \in EnrichDiscounts,
        k \in 0..MaxFeatures, p \in EnrichPrices, b \in EnrichBrands,
        pros \in GivenTexts, cons \in GivenTexts}

EnrichFrame == UNCHANGED <<aggVars, mergeVars, scoreVars, discountVars,
                           rateVars, keyVars, cacheVars, routeVars>>

EnrichInit ==
    /\ enrichInput \in EnrichInputs
    /\ enrichOutput = <<>>

EnrichIdle ==
    /\ enrichInput = BaseProduct
    /\ enrichOutput = <<>>

\* enrichProductData([enrichInput])
EnrichOne ==
    /\ enrichOutput = <<>>
    /\ enrichOutput' = EnrichProductData(<<enrichInput>>)
    /\ UNCHANGED enrichInput
    /\ EnrichFrame

EnrichNext == EnrichOne

(***************************************************************************)
(* AmazonAPIClient.searchItems and enforceRateLimit on the one client the  *)
(* search route shares between its requests.  A call of searchItems that   *)
(* is not served from its cache runs enforceRateLimit up to its await, is  *)
(* resumed by the timer, and then starts performSearch.                    *)
(***************************************************************************)
RequestDelay == 10000   \* this.requestDelay, in ms
MaxSearches == 3        \* calls of searchItems in one behaviour
MaxClockSteps == 4      \* how often the clock advances in one behaviour

Searches == 1..MaxSearches

\* Date.now() when the first call arrives: more than requestDelay after 0
FirstArrival == RequestDelay

RateFrame == UNCHANGED <<aggVars, mergeVars, scoreVars, discountVars,
                         enrichVars, keyVars, cacheVars, routeVars>>

RateInit ==
    /\ clock = FirstArrival
    /\ clockSteps = 0
    /\ lastRequestTime = 0
    /\ search = [i \in Searches |-> [pc |-> "idle", wakeAt |-> 0]]
    /\ upstream = <<>>

RateIdle == RateInit

\* searchItems(params): the cached products are returned when there are any
SearchItemsCall(i, cached) ==
    /\ search[i].pc = "idle"
    /\ search' = [search EXCEPT ![i].pc = IF cached THEN "returned"
                                          ELSE "enforceRateLimit"]
    /\ UNCHANGED <<clock, clockSteps, lastRequestTime, upstream>>
    /\ RateFrame

\* enforceRateLimit up to its await, or to its end when it does not wait
EnforceRateLimit(i) ==
    /\ search[i].pc = "enforceRateLimit"
    /\ LET timeSinceLastRequest == clock - lastRequestTime
       IN  IF timeSinceLastRequest < RequestDelay
           THEN /\ search' = [search EXCEPT
                        ![i].pc = "waiting",
                        ![i].wakeAt =
                            clock + (RequestDelay - timeSinceLastRequest)]
                /\ UNCHANGED <<lastRequestTime, upstream>>
           ELSE /\ lastRequestTime' = clock
                /\ upstream' = Append(upstream, clock)
                /\ search' = [search EXCEPT ![i].pc = "performSearch"]
    /\ UNCHANGED <<clock, clockSteps>>
    /\ RateFrame

\* the timer fires, not before its time: the rest of enforceRateLimit
TimerFires(i) ==
    /\ search[i].pc = "waiting"
    /\ clock >= search[i].wakeAt
    /\ lastRequestTime' = clock
    /\ upstream' = Append(upstream, clock)
    /\ search' = [search EXCEPT ![i].pc = "performSearch"]
    /\ UNCHANGED <<clock, clockSteps>>
    /\ RateFrame

\* performSearch returns or throws: searchItems returns
SearchItemsReturn(i) ==
    /\ search[i].pc = "performSearch"
    /\ search' = [search EXCEPT ![i].pc = "returned"]
    /\ UNCHANGED <<clock, clockSteps, lastRequestTime, upstream>>
    /\ RateFrame

\* time passes: a millisecond or a whole delay
RateSteps == {1, RequestDelay}

ClockAdvances(d) ==
    /\ clockSteps < MaxClockSteps
    /\ clock' = clock + d
    /\ clockSteps' = clockSteps + 1
    /\ UNCHANGED <<lastRequestTime, search, upstream>>
    /\ RateFrame

\* time passes up to the moment the timer of call i is due
TimerDue(i) ==
    /\ clockSteps < MaxClockSteps
    /\ search[i].pc = "waiting"
    /\ search[i].wakeAt > clock
    /\ clock' = search[i].wakeAt
    /\ clockSteps' = clockSteps + 1
    /\ UNCHANGED <<lastRequestTime, search, upstream>>
    /\ RateFrame

RateNext ==
    \/ \E i \in Searches, cached \in BOOLEAN : SearchItemsCall(i, cached)
    \/ \E i \in Searches : EnforceRateLimit(i)
    \/ \E i \in Searches : TimerFires(i)
    \/ \E i \in Searches : SearchItemsReturn(i)
    \/ \E d \in RateSteps : ClockAdvances(d)
    \/ \E i \in Searches : TimerDue(i)

(***************************************************************************)
(* DataProcessor.generateCacheKey.  A JavaScript value is a record of one  *)
(* shape (t names its type); an object is the sequence of its properties   *)
(* in the order they were added, which is the order JSON.stringify writes  *)
(* them in.                                                                *)
(***************************************************************************)
MaxKeyCalls == 3        \* calls of generateCacheKey in one behaviour

JsValue(t, s, n, items, fields) ==
    [t |-> t, s |-> s, n |-> n, items |-> items, fields |-> fields]
JsUndefined == JsValue("undefined", "", 0, <<>>, <<>>)
JsStr(s) == JsValue("string", s, 0, <<>>, <<>>)
JsNum(n) == JsValue("number", "", n, <<>>, <<>>)
JsArr(items) == JsValue("array", "", 0, items, <<>>)
JsObj(fields) == JsValue("object", "", 0, <<>>, fields)
JsNull == JsValue("null", "", 0, <<>>, <<>>)
Property(name, value) == [name |-> name, value |-> value]
\* a text that JSON.parse throws on
NotJson == JsValue("not json", "", 0, <<>>, <<>>)

\* obj.name
Field(obj, name) ==
    LET hits == SelectSeq(obj.fields, LAMBDA f : f.name = name)
    IN  IF hits = <<>> THEN JsUndefined ELSE hits[Len(hits)].value

\* !!v
JsTruthy(v) ==
    CASE v.t \in {"undefined", "null"} -> FALSE
      [] v.t = "string" -> v.s # ""
      [] v.t = "number" -> v.n # 0
      [] OTHER -> TRUE

\* the pieces, with a comma between them
RECURSIVE JoinComma(_)
JoinComma(pieces) ==
    IF pieces = <<>> THEN ""
    ELSE IF Len(pieces) = 1 THEN pieces[1]
         ELSE pieces[1] \o "," \o JoinComma(Tail(pieces))

\* JSON.stringify: a property whose value is undefined is left out, an
\* undefined array element is written null
RECURSIVE JSONStringify(_)
JSONStringify(v) ==
    CASE v.t = "string" -> "\"" \o v.s \o "\""
      [] v.t = "number" -> ToString(v.n)
      [] v.t = "null" -> "null"
      [] v.t = "array" ->
            "[" \o JoinComma([i \in 1..Len(v.items) |->
                    IF v.items[i].t = "undefined" THEN "null"
                    ELSE JSONStringify(v.items[i])]) \o "]"
      [] v.t = "object" ->
            LET present == SelectSeq(v.fields,
                                     LAMBDA f : f.value.t # "undefined")
            IN  "{" \o JoinComma([i \in 1..Len(present) |->
                    "\"" \o present[i].name \o "\":"
                    \o JSONStringify(present[i].value)]) \o "}"
      [] OTHER -> "undefined"

\* JSON.parse(JSON.stringify(v)): the value that the text of v denotes.  A
\* property whose value is undefined is gone, an undefined array element
\* is null; the order of the properties is the text's.
RECURSIVE JsonValue(_)
JsonValue(v) ==
    CASE v.t = "array" ->
            JsArr([i \in 1..Len(v.items) |->
                    IF v.items[i].t = "undefined" THEN JsNull
                    ELSE JsonValue(v.items[i])])
      [] v.t = "object" ->
            LET present == SelectSeq(v.fields,
                                     LAMBDA f : f.value.t # "undefined")
            IN  JsObj([i \in 1..Len(present) |->
                        Property(present[i].name,
                                 JsonValue(present[i].value))])
      [] OTHER -> v

\* the first 16 hex digits of the sha256 digest, taken to be injective: they
\* stand for the string that was hashed
Sha256Hex16(s) == "sha256/16(" \o s \o ")"

\* lines 261-268
GenerateCacheKey(data) == "cache:" \o Sha256Hex16(JSONStringify(data))

\* the same properties with the same values, in whatever order
RECURSIVE StructurallyEqual(_, _)
StructurallyEqual(a, b) ==
    /\ a.t = b.t
    /\ a.s = b.s
    /\ a.n = b.n
    /\ Len(a.items) = Len(b.items)
    /\ \A i \in 1..Len(a.items) : StructurallyEqual(a.items[i], b.items[i])
    /\ {f.name : f \in Range(a.fields)} = {f.name : f \in Range(b.fields)}
    /\ \A f \in Range(a.fields) : \A g \in Range(b.fields) :
            f.name = g.name => StructurallyEqual(f.value, g.value)

\* the orders in which the properties s can be added
Orders(s) == {t \in [1..Len(s) -> Range(s)] : Range(t) = Range(s)}

Queries == {"tv", "phone"}
Priorities == JsArr(<<JsStr("price")>>)
Budgets ==
    {JsObj(p) : p \in Orders(<<Property("min", JsNum(0)),
                               Property("max", JsNum(500))>>)}
PreferenceObjects ==
    {JsUndefined, JsObj(<<Property("priorities", Priorities)>>)}
    \cup {JsObj(p) : p \in UNION {Orders(<<Property("priorities", Priorities),
                                           Property("budget", b)>>) :
                                   b \in Budgets}}
\* { query, preferences }, as the search route builds it (part_001:43-46),
\* and the same object built in the other order
RequestShapes ==
    {JsObj(p) : p \in UNION {Orders(<<Property("query", JsStr(q)),
                                      Property("preferences", pr)>>) :
                              q \in Queries, pr \in PreferenceObjects}}

KeyFrame == UNCHANGED <<enrichVars, rateVars,
                        aggVars, mergeVars, scoreVars, discountVars,
                        cacheVars, routeVars>>

KeyInit ==
    /\ keyInput \in RequestShapes \X RequestShapes
    /\ keyOutput = <<>>

KeyIdle ==
    /\ keyInput = <<>>
    /\ keyOutput = <<>>

\* one call of generateCacheKey, on the first or the second shape
GenerateKey(i) ==
    /\ Len(keyOutput) < MaxKeyCalls
    /\ keyOutput' = Append(keyOutput,
                           [arg |-> i, key |-> GenerateCacheKey(keyInput[i])])
    /\ UNCHANGED keyInput
    /\ KeyFrame

KeyNext == \E i \in 1..2 : GenerateKey(i)

(***************************************************************************)
(* The result cache: DataProcessor.cacheResults and getCachedResults       *)
(* against the store (ioredis).  Every await is a step of its own: the     *)
(* store serves a command at one moment and the caller resumes at a later  *)
(* one, and other callers and the clock may move in between.  The store    *)
(* keeps a key until its own TTL has passed (a key is gone once the        *)
(* store's time is greater than its expiry time), and any command may      *)
(* fail (the promise rejects).                                             *)
(***************************************************************************)
MsPerSecond == 1000

Callers == {"c1", "c2"}
FirstCaller == "c1"
CacheKeys == {"cache:k1"}
DataValues ==
    {JsObj(<<Property("products", JsArr(<<JsStr("p1")>>))>>),
     JsObj(<<Property("products", JsArr(<<>>)),
             Property("analysis", JsUndefined)>>)}
Ttls == {1, 2}
TickSteps == {1, MsPerSecond - 1}

\* what getCachedResults returns on a miss
Null == JsNull
\* what cacheResults returns
Void == JsUndefined

\* a CacheEntry
CacheEntry(data, timestamp, ttl) ==
    [data |-> data, timestamp |-> timestamp, ttl |-> ttl]
NoEntry == CacheEntry(Null, 0, 0)

\* what the store holds under a key: the text, written as the value it
\* denotes, and the time it expires at
Nil == JsValue("nil", "", 0, <<>>, <<>>)
NoExpiry == 0 - 1
Stored(value, expireAt) == [value |-> value, expireAt |-> expireAt]
Empty == Stored(Nil, NoExpiry)

\* JSON.stringify(cacheEntry), line 229
StringifyEntry(entry) ==
    JsonValue(JsObj(<<Property("data", entry.data),
                      Property("timestamp", JsNum(entry.timestamp)),
                      Property("ttl", JsNum(entry.ttl))>>))
IsEntryText(text) == text.t = "object"
\* JSON.parse(cached), line 246, for a text that parses
ParseEntry(text) ==
    CacheEntry(Field(text, "data"), Field(text, "timestamp").n,
               Field(text, "ttl").n)

\* GET key, as the store answers it at this moment
StoreRead(key) ==
    IF store[key].value # Nil
       /\ (store[key].expireAt = NoExpiry \/ now <= store[key].expireAt)
    THEN store[key].value
    ELSE Nil

\* a variant that expires an entry at the very end of its time to live
IsExpiredInclusive(entry, at) ==
    at - entry.timestamp >= entry.ttl * MsPerSecond

\* line 249: age > cacheEntry.ttl * 1000
IsExpired(entry, at) == at - entry.timestamp > entry.ttl * MsPerSecond

Frame(op, pc, key, data, ttl) ==
    [op |-> op, pc |-> pc, key |-> key, data |-> data, ttl |-> ttl,
     entry |-> NoEntry, cached |-> Nil, at |-> 0, how |-> "", result |-> Void]
IdleFrame == Frame("none", "idle", "", Null, 0)

\* a call has returned: its locals are gone; what is kept is what it
\* returned, when it decided (at: the Date.now() of line 247 for a read that
\* got that far, else the moment it returned) and how: "unconfigured", "stored", "nil",
\* "hit", "expired" (and deleted), or "error" (a catch block ran)
Returned(f, outcome, value) ==
    [Frame(f.op, "returned", f.key, Null, 0) EXCEPT
        !.at = IF f.pc = "del" THEN f.at ELSE now,
        !.how = outcome, !.result = value]

InProgress(c) == call[c].pc \notin {"idle", "returned"}

\* a caller may start a call
MayCall(c) ==
    /\ calls < MaxCalls
    /\ ~InProgress(c)
    /\ overlap \/ (c = FirstCaller /\ \A d \in Callers : ~InProgress(d))

CacheFrame == UNCHANGED <<enrichVars, rateVars,
                          aggVars, mergeVars, scoreVars, discountVars,
                          keyVars, routeVars>>

CacheInit ==
    /\ redis \in BOOLEAN
    /\ now = 0
    /\ ticks = 0
    /\ calls = 0
    /\ store \in [CacheKeys -> {Empty, Stored(NotJson, NoExpiry)}]
    /\ call = [c \in Callers |-> IdleFrame]
    /\ applied = [k \in CacheKeys |-> NoEntry]
    /\ expiredSeen = [k \in CacheKeys |-> FALSE]

CacheIdle ==
    /\ redis = FALSE
    /\ now = 0
    /\ ticks = 0
    /\ calls = 0
    /\ store = [k \in CacheKeys |-> Empty]
    /\ call = [c \in Callers |-> IdleFrame]
    /\ overlap = FALSE
    /\ applied = [k \in CacheKeys |-> NoEntry]
    /\ expiredSeen = [k \in CacheKeys |-> FALSE]

\* the frame of a call of cacheResults, lines 216-229 up to the await
CacheResultsFrame(key, data, ttl) ==
    IF ~redis
    THEN Returned(Frame("cacheResults", "", key, data, ttl),
                  "unconfigured", Void)
    ELSE [Frame("cacheResults", "setex", key, data, ttl) EXCEPT
            !.entry = CacheEntry(data, now, ttl)]

\* a variant without the guard of lines 236-238
GetCachedResultsFrameUnguarded(key) ==
    Frame("getCachedResults", "get", key, Null, 0)

\* the frame of a call of getCachedResults, lines 235-241 up to the await
GetCachedResultsFrame(key) ==
    IF ~redis
    THEN Returned(Frame("getCachedResults", "", key, Null, 0),
                  "unconfigured", Null)
    ELSE Frame("getCachedResults", "get", key, Null, 0)

\* someone calls cacheResults(key, data, ttl)
CacheResults(c, key, data, ttl) ==
    /\ MayCall(c)
    /\ call' = [call EXCEPT ![c] = CacheResultsFrame(key, data, ttl)]
    /\ calls' = calls + 1
    /\ UNCHANGED <<redis, now, ticks, store, overlap, applied, expiredSeen>>
    /\ CacheFrame

\* someone calls getCachedResults(key)
GetCachedResults(c, key) ==
    /\ MayCall(c)
    /\ call' = [call EXCEPT ![c] = GetCachedResultsFrame(key)]
    /\ calls' = calls + 1
    /\ UNCHANGED <<redis, now, ticks, store, overlap, applied, expiredSeen>>
    /\ CacheFrame

\* line 229: the store applies SETEX, or the command fails and lines
\* 230-232 catch it
StoreSetex(c, ok) ==
    /\ call[c].pc = "setex"
    /\ LET f == call[c] IN
        /\ store' = IF ok
                    THEN [store EXCEPT ![f.key] =
                            Stored(StringifyEntry(f.entry),
                                   now + f.ttl * MsPerSecond)]
                    ELSE store
        /\ applied' = IF ok THEN [applied EXCEPT ![f.key] = f.entry]
                            ELSE applied
        /\ expiredSeen' = IF ok THEN [expiredSeen EXCEPT ![f.key] = FALSE]
                                ELSE expiredSeen
        /\ call' = [call EXCEPT ![c] =
                        Returned(f, IF ok THEN "stored" ELSE "error", Void)]
    /\ UNCHANGED <<redis, now, ticks, calls, overlap>>
    /\ CacheFrame

\* what a call leaves behind when it throws instead of returning
Raised == JsValue("raised", "", 0, <<>>, <<>>)

\* a variant without the catch block of lines 255-258
GotUncaught(f, ok, cached) ==
    IF ~ok THEN Returned(f, "error", Raised)
    ELSE IF cached = Nil THEN Returned(f, "nil", Null)
         ELSE [f EXCEPT !.pc = "parse", !.cached = cached]

\* what lines 241-244 make of the store's answer to GET
Got(f, ok, cached) ==
    IF ~ok THEN Returned(f, "error", Null)
    ELSE IF cached = Nil THEN Returned(f, "nil", Null)
         ELSE [f EXCEPT !.pc = "parse", !.cached = cached]

\* lines 241-244: the store answers GET, or the command fails and lines
\* 255-258 catch it
StoreGet(c, ok) ==
    /\ call[c].pc = "get"
    /\ call' = [call EXCEPT ![c] = Got(call[c], ok, StoreRead(call[c].key))]
    /\ UNCHANGED <<redis, now, ticks, calls, store, overlap, applied,
                   expiredSeen>>
    /\ CacheFrame

\* a variant that reports the miss and leaves the stale entry in the store
CheckedNoDelete(f) ==
    IF ~IsEntryText(f.cached)
    THEN Returned(f, "error", Null)
    ELSE LET cacheEntry == ParseEntry(f.cached) IN
         IF IsExpired(cacheEntry, now)
         THEN Returned(f, "expired", Null)
         ELSE Returned(f, "hit", cacheEntry.data)

\* what lines 246-254 make of the text the store returned
Checked(f) ==
    IF ~IsEntryText(f.cached)
    THEN Returned(f, "error", Null)
    ELSE LET cacheEntry == ParseEntry(f.cached) IN
         IF IsExpired(cacheEntry, now)
         THEN [f EXCEPT !.pc = "del", !.entry = cacheEntry, !.at = now]
         ELSE Returned(f, "hit", cacheEntry.data)

\* lines 246-254: the caller resumes with the text
ParseAndCheck(c) ==
    /\ call[c].pc = "parse"
    /\ call' = [call EXCEPT ![c] = Checked(call[c])]
    /\ UNCHANGED <<redis, now, ticks, calls, store, overlap, applied,
                   expiredSeen>>
    /\ CacheFrame

\* lines 250-251: the store applies DEL, or the command fails and lines
\* 255-258 catch it
StoreDel(c, ok) ==
    /\ call[c].pc = "del"
    /\ LET f == call[c] IN
        /\ store' = IF ok THEN [store EXCEPT ![f.key] = Empty] ELSE store
        /\ expiredSeen' = [expiredSeen EXCEPT ![f.key] = TRUE]
        /\ call' = [call EXCEPT ![c] =
                        Returned(f, IF ok THEN "expired" ELSE "error", Null)]
    /\ UNCHANGED <<redis, now, ticks, calls, overlap, applied>>
    /\ CacheFrame

\* time passes
Tick(d) ==
    /\ ticks < MaxTicks
    /\ now' = now + d
    /\ ticks' = ticks + 1
    /\ UNCHANGED <<redis, calls, store, call, overlap, applied, expiredSeen>>
    /\ CacheFrame

CacheNext ==
    \/ \E c \in Callers, k \in CacheKeys, d \in DataValues, t \in Ttls :
            CacheResults(c, k, d, t)
    \/ \E c \in Callers, k \in CacheKeys : GetCachedResults(c, k)
    \/ \E c \in Callers, ok \in BOOLEAN : StoreSetex(c, ok)
    \/ \E c \in Callers, ok \in BOOLEAN : StoreGet(c, ok)
    \/ \E c \in Callers : ParseAndCheck(c)
    \/ \E c \in Callers, ok \in BOOLEAN : StoreDel(c, ok)
    \/ \E d \in TickSteps : Tick(d)

(***************************************************************************)
(* The search route (POST, part_001) and the analyze route (POST,          *)
(* app/api/analyze/route.ts), one request at a time.  Their calls of       *)
(* getCachedResults and cacheResults run as the first caller's.            *)
(***************************************************************************)

MaxRequests == 2        \* requests served in one behaviour

SearchTtl == 3600
AnalyzeTtl == 7200
ResponseLimit == 20

\* s.trim(), for the texts a query is drawn from
BlankTexts == {"", " "}
Trim(s) == IF s \in BlankTexts THEN "" ELSE s

ProductObject(id) == JsObj(<<Property("id", JsStr(id))>>)
PreferencesObject == JsObj(<<Property("priorities", Priorities)>>)

SearchBodies ==
    {NotJson,
     JsObj(<<>>),
     JsObj(<<Property("query", JsStr(" "))>>),
     JsObj(<<Property("query", JsStr("phone"))>>),
     JsObj(<<Property("query", JsStr("phone")),
             Property("preferences", PreferencesObject)>>)}
AnalyzeBodies ==
    {NotJson,
     JsObj(<<>>),
     JsObj(<<Property("products", JsArr(<<>>))>>),
     JsObj(<<Property("products", JsArr(<<ProductObject("g-iphone")>>))>>)}
Bodies(kind) == IF kind = "search" THEN SearchBodies ELSE AnalyzeBodies

\* part_001:35 and analyze/route.ts:23, negated
ValidBody(kind, body) ==
    IF kind = "search"
    THEN JsTruthy(Field(body, "query")) /\ Trim(Field(body, "query").s) # ""
    ELSE JsTruthy(Field(body, "products"))
         /\ Len(Field(body, "products").items) # 0

\* part_001:43-46 and analyze/route.ts:31-34
CacheKeyOf(kind, body) ==
    IF kind = "search"
    THEN GenerateCacheKey(JsObj(<<
            Property("query", Field(body, "query")),
            Property("preferences", Field(body, "preferences"))>>))
    ELSE GenerateCacheKey(JsObj(<<
            Property("productIds",
                JsArr([i \in 1..Len(Field(body, "products").items) |->
                        Field(Field(body, "products").items[i], "id")])),
            Property("preferences", Field(body, "preferences"))>>))

Kinds == {"search", "analyze"}
RouteKeys ==
    {CacheKeyOf(kind, body) :
        kind \in Kinds,
        body \in {b \in SearchBodies \cup AnalyzeBodies :
                    b # NotJson /\ (ValidBody("search", b)
                                    \/ ValidBody("analyze", b))}}

\* what the two source adapters may answer
GoogleAnswers == {<<>>, <<IPhoneGoogle>>}
AmazonAnswers == {<<>>, <<IPhoneAmazon>>}
RouteTickSteps == {AnalyzeTtl * MsPerSecond + 1}

\* one entry of what Promise.allSettled resolves to
Adapter(status, value) == [status |-> status, value |-> value]
NotStarted == Adapter("idle", <<>>)
Pending == Adapter("pending", <<>>)

IdleRequest ==
    [n |-> 0, kind |-> "none", pc |-> "idle", body |-> JsUndefined,
     cacheKey |-> "", readHow |-> "", writeHow |-> "",
     searchParams |-> JsUndefined, google |-> NotStarted,
     amazon |-> NotStarted,
     products |-> <<>>, amazonProducts |-> <<>>,
     aggregatedProducts |-> <<>>, normalizedProducts |-> <<>>,
     generators |-> <<>>,
     analysis |-> JsUndefined, response |-> JsUndefined, status |-> 0,
     data |-> Null]

\* NextResponse.json(..., { status }): the handler has returned and its
\* locals are gone; what is kept is the request, the response, what the two
\* adapters settled to, which analysis generators were invoked and how the
\* two cache calls ended
Responded(r, status, data) ==
    [IdleRequest EXCEPT !.n = r.n, !.kind = r.kind, !.body = r.body,
                        !.cacheKey = r.cacheKey, !.readHow = r.readHow,
                        !.writeHow = r.writeHow, !.google = r.google,
                        !.amazon = r.amazon, !.generators = r.generators,
                        !.pc = "responded",
                        !.status = status, !.data = data]

\* a variant that takes every lookup for a miss
CachedNever(value) == FALSE

\* if (cachedResults)
Cached(value) == JsTruthy(value)

\* a variant in the manner of Promise.all: one rejection is thrown on
PromiseAll(google, amazon) ==
    [threw |-> google.status = "rejected" \/ amazon.status = "rejected",
     products |-> google.value,
     amazonProducts |-> amazon.value]

\* part_001:74-77 on what Promise.allSettled resolved to; nothing is thrown
AllSettled(google, amazon) ==
    [threw |-> FALSE,
     products |-> IF google.status = "fulfilled" THEN google.value ELSE <<>>,
     amazonProducts |->
        IF amazon.status = "fulfilled" THEN amazon.value ELSE <<>>]

NormalizeOutcomes == {"array", "other", "fallback"}
\* whose analysis the request ends up with: the answer of Claude to the
\* comparative prompt, what ClaudeAPIClient.generateProductAnalysis returns
\* in its place (the model's answer or its cached copy, or the client's
\* fallback analysis), or what the Gemini client returns
AnalysisSources == {"claude", "claude analysis", "claude fallback", "gemini"}
ProductAnalysisOutcomes == {"claude analysis", "claude fallback", "rejected"}

\* claudeClient.normalizeProductData (claudeAPI.ts:327-344): the model's
\* array, [] when it answers something else, the fallback's copy when the
\* call fails
NormalizeProductData(rawProducts, outcome) ==
    IF rawProducts = <<>> \/ outcome = "other" THEN <<>> ELSE rawProducts

\* claudeClient.processUserQuery (claudeAPI.ts:298-325) when the model
\* names no category and no price range, and the route's own parsing
\* (part_001:62-65) when the call fails
SearchParams(ok, body) ==
    IF ok
    THEN JsObj(<<Property("searchTerms", Field(body, "query")),
                 Property("category", JsUndefined),
                 Property("priceRange", JsUndefined),
                 Property("mustHaveFeatures", JsArr(<<>>)),
                 Property("userPriorities", JsArr(<<>>)),
                 Property("excludeTerms", JsArr(<<>>))>>)
    ELSE JsObj(<<Property("searchTerms", Field(body, "query")),
                 Property("userPriorities",
                    IF JsTruthy(Field(Field(body, "preferences"),
                                      "priorities"))
                    THEN Field(Field(body, "preferences"), "priorities")
                    ELSE JsArr(<<>>))>>)

ProductObjects(products) ==
    JsArr([i \in 1..Len(products) |-> ProductObject(products[i].id)])

\* part_001:110-198: the analysis, by the service that made it
Analysis(source, query, normalizedProducts) ==
    JsObj(<<Property("executiveSummary",
                JsStr(source \o ": analysis of " \o query \o ", "
                      \o ToString(Len(normalizedProducts)) \o " products")),
            Property("overallRecommendation",
                JsStr(IF normalizedProducts = <<>> THEN ""
                      ELSE normalizedProducts[1].id))>>)

\* part_001:200-205
SearchResponse(normalizedProducts, analysis, searchParams, cacheKey) ==
    JsObj(<<Property("products",
                ProductObjects(Slice(normalizedProducts, ResponseLimit))),
            Property("analysis", analysis),
            Property("searchParams", searchParams),
            Property("cacheKey", JsStr(cacheKey))>>)

\* analyze/route.ts:52-62
ProductAnalysis(source, body) ==
    JsObj(<<Property("executiveSummary", JsStr(source)),
            Property("products", Field(body, "products"))>>)

RouteFrame == UNCHANGED <<enrichVars, rateVars,
                          aggVars, mergeVars, scoreVars, discountVars,
                          keyVars, redis, now, ticks,
                          calls, store, overlap, applied, expiredSeen>>

RouteIdle == req = IdleRequest

RouteInit ==
    /\ redis \in BOOLEAN
    /\ now = 0
    /\ ticks = 0
    /\ calls = 0
    /\ store \in {[k \in RouteKeys |-> v] :
                    v \in {Empty, Stored(NotJson, NoExpiry)}}
    /\ call = [c \in Callers |-> IdleFrame]
    /\ overlap = FALSE
    /\ applied = [k \in RouteKeys |-> NoEntry]
    /\ expiredSeen = [k \in RouteKeys |-> FALSE]
    /\ req = IdleRequest

\* where a received request stands when it first awaits: part_001:33-48,
\* analyze/route.ts:21-36
Received(r) ==
    IF r.body = NotJson THEN Responded(r, 500, Null)
    ELSE IF ~ValidBody(r.kind, r.body) THEN Responded(r, 400, Null)
    ELSE [r EXCEPT !.pc = "cacheRead",
                   !.cacheKey = CacheKeyOf(r.kind, r.body)]

\* a client sends a request, or sends its request again
Post(kind, body) ==
    /\ \/ req.pc = "idle"
       \/ req.pc = "responded" /\ kind = req.kind /\ body = req.body
    /\ req.n < MaxRequests
    /\ req' = Received([IdleRequest EXCEPT !.n = req.n + 1, !.kind = kind,
                                           !.body = body])
    /\ call' = [call EXCEPT ![FirstCaller] =
                    IF req'.pc = "cacheRead"
                    THEN GetCachedResultsFrame(req'.cacheKey)
                    ELSE IdleFrame]
    /\ RouteFrame

\* part_001:48-55, analyze/route.ts:36-43: getCachedResults has returned
CacheRead ==
    /\ req.pc = "cacheRead"
    /\ call[FirstCaller].pc = "returned"
    /\ LET got == call[FirstCaller]
           r == [req EXCEPT !.readHow = got.how]
       IN  req' = IF got.result = Raised THEN Responded(r, 500, Null)
                  ELSE IF Cached(got.result)
                       THEN Responded(r, 200, got.result)
                       ELSE [r EXCEPT !.pc = IF r.kind = "search"
                                             THEN "parseQuery"
                                             ELSE "analysis"]
    /\ UNCHANGED call
    /\ RouteFrame

\* part_001:57-72: processUserQuery returns or throws, and both adapters are
\* called
ProcessUserQuery(ok) ==
    /\ req.pc = "parseQuery"
    /\ req' = [req EXCEPT !.pc = "fanout",
                          !.searchParams = SearchParams(ok, req.body),
                          !.google = Pending,
                          !.amazon = Pending]
    /\ UNCHANGED call
    /\ RouteFrame

\* realProductSearch.ts:21-41: searchProducts returns a list, whatever
\* happens
SearchProducts(value) ==
    /\ req.pc = "fanout"
    /\ req.google = Pending
    /\ req' = [req EXCEPT !.google = Adapter("fulfilled", value)]
    /\ UNCHANGED call
    /\ RouteFrame

\* amazonAPI.ts:27-61: searchItems returns a list, or rejects when the
\* lookup in its own cache at lines 32-37 fails
SearchItems(ok, value) ==
    /\ req.pc = "fanout"
    /\ req.amazon = Pending
    /\ ok \/ redis
    /\ req' = [req EXCEPT !.amazon = IF ok THEN Adapter("fulfilled", value)
                                          ELSE Adapter("rejected", <<>>)]
    /\ UNCHANGED call
    /\ RouteFrame

\* a variant that aggregates whatever the adapters returned, nothing included
CombinedUnchecked(r, settled) ==
    IF settled.threw THEN Responded(r, 500, Null)
    ELSE [r EXCEPT !.pc = "normalize",
                   !.products = settled.products,
                   !.amazonProducts = settled.amazonProducts,
                   !.aggregatedProducts =
                        AggregateProductData(settled.products,
                                             settled.amazonProducts)]

\* part_001:74-93 on what the fan-out resolved to
Combined(r, settled) ==
    IF settled.threw THEN Responded(r, 500, Null)
    ELSE IF Len(settled.products \o settled.amazonProducts) = 0
         THEN Responded([r EXCEPT !.products = settled.products,
                                  !.amazonProducts = settled.amazonProducts],
                        404, Null)
         ELSE [r EXCEPT !.pc = "normalize",
                        !.products = settled.products,
                        !.amazonProducts = settled.amazonProducts,
                        !.aggregatedProducts =
                            AggregateProductData(settled.products,
                                                 settled.amazonProducts)]

\* part_001:69-93: both adapters have settled
Combine ==
    /\ req.pc = "fanout"
    /\ req.google.status \in {"fulfilled", "rejected"}
    /\ req.amazon.status \in {"fulfilled", "rejected"}
    /\ req' = Combined(req, AllSettled(req.google, req.amazon))
    /\ UNCHANGED call
    /\ RouteFrame

\* part_001:95-102
Normalize(outcome) ==
    /\ req.pc = "normalize"
    /\ req' = [req EXCEPT !.pc = "analysis",
                          !.normalizedProducts =
                            NormalizeProductData(req.aggregatedProducts,
                                                 outcome)]
    /\ UNCHANGED call
    /\ RouteFrame

\* a variant that caches the response for as long as the analyze route does
AnalyseForTwoHours(source, generators) ==
    LET analysis == Analysis(source, Field(req.body, "query").s,
                             req.normalizedProducts)
        response == SearchResponse(req.normalizedProducts, analysis,
                                   req.searchParams, req.cacheKey)
    IN  /\ req' = [req EXCEPT !.pc = "cacheWrite",
                              !.generators = generators,
                              !.analysis = analysis,
                              !.response = response]
        /\ call' = [call EXCEPT ![FirstCaller] =
                        CacheResultsFrame(req.cacheKey, response, AnalyzeTtl)]

\* part_001:200-207: a generator has returned the analysis; the response is
\* built and cacheResults is called
Analyse(source, generators) ==
    LET analysis == Analysis(source, Field(req.body, "query").s,
                             req.normalizedProducts)
        response == SearchResponse(req.normalizedProducts, analysis,
                                   req.searchParams, req.cacheKey)
    IN  /\ req' = [req EXCEPT !.pc = "cacheWrite",
                              !.generators = generators,
                              !.analysis = analysis,
                              !.response = response]
        /\ call' = [call EXCEPT ![FirstCaller] =
                        CacheResultsFrame(req.cacheKey, response, SearchTtl)]

\* part_001:113-118, claudeAPI.ts:396-473: claudeClient.
\* generateComparativeAnalysis calls the model; when that call fails, its
\* catch calls this.generateProductAnalysis and returns what that returns
ClaudeComparativeAnalysis(ok) ==
    /\ req.pc = "analysis"
    /\ req.kind = "search"
    /\ IF ok
       THEN Analyse("claude", <<"claude">>)
       ELSE /\ req' = [req EXCEPT
                        !.pc = "claudeProductAnalysis",
                        !.generators = <<"claude", "claude product analysis">>]
            /\ UNCHANGED call
    /\ RouteFrame

\* claudeAPI.ts:476-530: generateProductAnalysis looks the analysis up in its
\* own cache outside of any try (a failing lookup rejects the call, and with
\* it generateComparativeAnalysis), returns the model's answer or, when the
\* model call fails, the fallback analysis.  Only the rejection takes the
\* route to its catch at part_001:119-125, which calls the Gemini client
ClaudeProductAnalysis(outcome) ==
    /\ req.pc = "claudeProductAnalysis"
    /\ IF outcome = "rejected"
       THEN /\ redis
            /\ req' = [req EXCEPT !.pc = "gemini",
                                  !.generators = Append(req.generators,
                                                        "gemini")]
            /\ UNCHANGED call
       ELSE Analyse(outcome, req.generators)
    /\ RouteFrame

\* part_001:120-125, geminiAPI.ts:17-114: geminiClient.
\* generateComparativeAnalysis returns an analysis whatever happens (its own
\* fallback without an API key or when the model fails), so the catch at
\* part_001:126-198 with the basic analysis is never entered
GeminiComparativeAnalysis ==
    /\ req.pc = "gemini"
    /\ Analyse("gemini", req.generators)
    /\ RouteFrame

\* analyze/route.ts:45-64
GenerateProductAnalysis(ok) ==
    /\ req.pc = "analysis"
    /\ req.kind = "analyze"
    /\ LET analysis == ProductAnalysis(IF ok THEN "claude" ELSE "fallback",
                                       req.body)
       IN  /\ req' = [req EXCEPT !.pc = "cacheWrite",
                                 !.analysis = analysis,
                                 !.response = analysis]
           /\ call' = [call EXCEPT ![FirstCaller] =
                        CacheResultsFrame(req.cacheKey, analysis, AnalyzeTtl)]
    /\ RouteFrame

\* part_001:207-213, analyze/route.ts:64-70: cacheResults has returned
Respond ==
    /\ req.pc = "cacheWrite"
    /\ call[FirstCaller].pc = "returned"
    /\ LET r == [req EXCEPT !.writeHow = call[FirstCaller].how]
       IN  req' = IF call[FirstCaller].result = Raised
                  THEN Responded(r, 500, Null)
                  ELSE Responded(r, 200, r.response)
    /\ UNCHANGED call
    /\ RouteFrame

\* time passes, once for each request, while its response is being cached
\* or before the next request arrives
Elapse(d) ==
    /\ req.pc \in {"cacheWrite", "responded"}
    /\ req.n < MaxRequests
    /\ ticks < req.n
    /\ Tick(d)

RouteNext ==
    \/ \E kind \in Kinds : \E body \in Bodies(kind) : Post(kind, body)
    \/ CacheRead
    \/ \E ok \in BOOLEAN : ProcessUserQuery(ok)
    \/ \E value \in GoogleAnswers : SearchProducts(value)
    \/ \E ok \in BOOLEAN, value \in AmazonAnswers : SearchItems(ok, value)
    \/ Combine
    \/ \E outcome \in NormalizeOutcomes : Normalize(outcome)
    \/ \E ok \in BOOLEAN : ClaudeComparativeAnalysis(ok)
    \/ \E outcome \in ProductAnalysisOutcomes : ClaudeProductAnalysis(outcome)
    \/ GeminiComparativeAnalysis
    \/ \E ok \in BOOLEAN : GenerateProductAnalysis(ok)
    \/ Respond
    \/ \E ok \in BOOLEAN : StoreGet(FirstCaller, ok)
    \/ ParseAndCheck(FirstCaller)
    \/ \E ok \in BOOLEAN : StoreDel(FirstCaller, ok)
    \/ \E ok \in BOOLEAN : StoreSetex(FirstCaller, ok)
    \/ \E d \in RouteTickSteps : Elapse(d)

(***************************************************************************)
(* The specifications: one part of the program runs, the others are idle.  *)
(***************************************************************************)

\* the operations that are called on their own are not running
PureIdle == ScoreIdle /\ DiscountIdle /\ EnrichIdle /\ RateIdle

InitAggregate ==
    AggInit /\ MergeIdle /\ PureIdle /\ KeyIdle /\ CacheIdle /\ RouteIdle
InitMerge ==
    AggIdle /\ MergeInit /\ PureIdle /\ KeyIdle /\ CacheIdle /\ RouteIdle
InitScore ==
    AggIdle /\ MergeIdle /\ ScoreInit /\ DiscountIdle /\ EnrichIdle
    /\ RateIdle /\ KeyIdle /\ CacheIdle /\ RouteIdle
InitDiscount ==
    AggIdle /\ MergeIdle /\ ScoreIdle /\ DiscountInit /\ EnrichIdle
    /\ RateIdle /\ KeyIdle /\ CacheIdle /\ RouteIdle
InitEnrich ==
    AggIdle /\ MergeIdle /\ ScoreIdle /\ DiscountIdle /\ EnrichInit
    /\ RateIdle /\ KeyIdle /\ CacheIdle /\ RouteIdle
InitRateLimit ==
    AggIdle /\ MergeIdle /\ ScoreIdle /\ DiscountIdle /\ EnrichIdle
    /\ RateInit /\ KeyIdle /\ CacheIdle /\ RouteIdle
InitCacheKey ==
    AggIdle /\ MergeIdle /\ PureIdle /\ KeyInit /\ CacheIdle /\ RouteIdle
InitCacheSeq ==
    AggIdle /\ MergeIdle /\ PureIdle /\ KeyIdle /\ CacheInit
    /\ overlap = FALSE /\ RouteIdle
InitCache ==
    AggIdle /\ MergeIdle /\ PureIdle /\ KeyIdle /\ CacheInit
    /\ overlap = TRUE /\ RouteIdle
InitRoute == AggIdle /\ MergeIdle /\ PureIdle /\ KeyIdle /\ RouteInit

SpecAggregate == InitAggregate /\ [][AggNext]_vars
SpecMerge == InitMerge /\ [][MergeNext]_vars
SpecScore == InitScore /\ [][ScoreNext]_vars
SpecDiscount == InitDiscount /\ [][DiscountNext]_vars
SpecEnrich == InitEnrich /\ [][EnrichNext]_vars
SpecRateLimit == InitRateLimit /\ [][RateNext]_vars
SpecCacheKey == InitCacheKey /\ [][KeyNext]_vars
SpecCacheSeq == InitCacheSeq /\ [][CacheNext]_vars
SpecCache == InitCache /\ [][CacheNext]_vars
SpecRoute == InitRoute /\ [][RouteNext]_vars

(***************************************************************************)
(* Properties.                                                             *)
(***************************************************************************)

\* the specification's end-to-end scenario has been aggregated
SonyScenario ==
    /\ entryPoint = "aggregateProductData"
    /\ stage = "done"
    /\ googleResults = <<SonyGoogle>>
    /\ amazonResults = <<SonyAmazon>>

\* C1, as stated: aggregating the google record "Sony Headphones XM5" (398,
\* rating 0) and the amazon record "Sony Headphones XM5 Wireless" (350,
\* rating 4.4, affiliateLink "aff://x") yields exactly one Product, with
\* price 350, rating 4.4 and affiliateLink "aff://x".
C1_OneMergedProduct ==
    SonyScenario =>
        /\ Len(result) = 1
        /\ result[1].price = 350
        /\ result[1].rating = Tenths(44)
        /\ result[1].affiliateLink = "aff://x"

\* C1, amended: the two titles share 3 of 4 words, which is below the
\* threshold of 0.8, and their keys differ, so aggregating them yields two
\* Products: the amazon record first (price 350, rating 4.4, affiliateLink
\* "aff://x"), the google record second (price 398, rating 0, no
\* affiliateLink).
C1_TwoProducts ==
    SonyScenario =>
        /\ Len(result) = 2
        /\ result[1].price = 350
        /\ result[1].rating = Tenths(44)
        /\ result[1].affiliateLink = "aff://x"
        /\ result[1].source = "amazon"
        /\ result[2].price = 398
        /\ result[2].rating = 0
        /\ result[2].affiliateLink = Undefined
        /\ result[2].source = "google"

C1_Witness == SonyScenario /\ Len(result) = 2

\* C2: deduplicateProducts is idempotent: run on the list it returned, it
\* returns the same products, in the same order, with the same field values.
C2_Idempotent ==
    stage \in {"enrich", "sort", "done", "returned"} =>
        DeduplicateProducts(deduplicatedProducts) = deduplicatedProducts

\* a call of deduplicateProducts has returned two products after merging
\* a third into one of them
C2_Witness ==
    /\ stage = "returned"
    /\ Len(allProducts) = 3
    /\ Len(deduplicatedProducts) = 2
    /\ DeduplicateProducts(deduplicatedProducts) = deduplicatedProducts

\* neither record's affiliate link nor its price stands against the other's
NoConflict(a, b) ==
    /\ ~Truthy(a.affiliateLink) \/ ~Truthy(b.affiliateLink)
       \/ a.affiliateLink = b.affiliateLink
    /\ a.price = 0 \/ b.price = 0 \/ a.price = b.price

\* C3, as stated: for two Products A and B with no affiliate or price
\* conflict, the features list of mergeProducts(A, B) equals the features
\* list of mergeProducts(B, A).
C3_FeaturesCommute ==
    (merged # NotMerged /\ NoConflict(product1, product2)) =>
        merged.features = MergeProducts(product2, product1).features

\* C3, amended: for two Products A and B with no affiliate or price
\* conflict, mergeProducts(A, B) and mergeProducts(B, A) have the same set of
\* features exactly when the two lists are of different lengths and every
\* feature of the shorter is in the longer, or they are of the same length
\* and hold the same set; with lists of the same length each merge keeps the
\* features of its base unchanged.
C3_FeaturesCommuteWhen ==
    (merged # NotMerged /\ NoConflict(product1, product2)) =>
        LET a == product1.features
            b == product2.features
            ab == merged.features
            ba == MergeProducts(product2, product1).features
        IN  /\ Range(ab) = Range(ba) <=>
                    \/ Len(a) < Len(b) /\ Range(a) \subseteq Range(b)
                    \/ Len(a) > Len(b) /\ Range(b) \subseteq Range(a)
                    \/ Len(a) = Len(b) /\ Range(a) = Range(b)
            /\ Len(a) = Len(b) => ab = a /\ ba = b

\* two records with as many features each, not the same ones, were merged
C3_Witness ==
    /\ merged # NotMerged
    /\ NoConflict(product1, product2)
    /\ Len(product1.features) = Len(product2.features)
    /\ Range(product1.features) # Range(product2.features)
    /\ merged.features = product1.features

\* C4: generateCacheKey returns the same key for two request shapes with the
\* same fields and the same values, in whatever order the fields were added
\* (at the top level and inside preferences), and the same key on every
\* call with the same input.
C4_SameKeyForEqualShapes ==
    \A i, j \in 1..Len(keyOutput) :
        StructurallyEqual(keyInput[keyOutput[i].arg],
                          keyInput[keyOutput[j].arg])
            => keyOutput[i].key = keyOutput[j].key

\* a read by the first caller that the store served or answered nil, of a
\* key some cacheResults has written
ReadOfWritten(f) ==
    /\ f.op = "getCachedResults"
    /\ f.pc = "returned"
    /\ f.how \in {"hit", "expired", "nil"}
    /\ applied[f.key] # NoEntry

\* C5: with a store configured and answering, a read of an entry that
\* cacheResults(key, data, ttl) wrote at time t, deciding at time t', misses
\* (null) when t' - t > ttl*1000 and returns the entry's data, whole and
\* unchanged, when t' - t <= ttl*1000; with ttl = 1 it misses at 1001 ms
\* and hits at 999 ms.  The data returned is the JSON value of the data
\* written: the same text when serialized, and the very same value when no
\* property of it is undefined.
C5_ExpiryBoundary ==
    LET f == call[FirstCaller]
        e == applied[f.key]
    IN  ReadOfWritten(f) =>
            IF f.at - e.timestamp > e.ttl * MsPerSecond
            THEN f.result = Null
            ELSE /\ f.how = "hit"
                 /\ f.result = JsonValue(e.data)
                 /\ JSONStringify(f.result) = JSONStringify(e.data)
                 /\ JsonValue(e.data) = e.data => f.result = e.data

\* an entry written with ttl = 1 was read 1001 ms later and missed
C5_Witness ==
    LET f == call[FirstCaller]
    IN  /\ ReadOfWritten(f)
        /\ applied[f.key].ttl = 1
        /\ f.at - applied[f.key].timestamp = 1001
        /\ f.result = Null

\* C6: a read that finds an entry older than ttl*1000 ms deletes it from the
\* store before it returns the miss, every later read of the key with no
\* write in between misses too, and nothing but such a read takes an entry
\* out of the store (the store's own expiry apart).
C6_LazyDelete ==
    /\ [](LET f == call[FirstCaller]
          IN  /\ (f.pc = "returned" /\ f.how = "expired")
                    => store[f.key].value = Nil
              /\ (f.pc = "returned" /\ f.op = "getCachedResults"
                  /\ expiredSeen[f.key]) => f.result = Null)
    /\ [][\A k \in DOMAIN store :
            (store[k].value # Nil /\ store'[k].value = Nil) =>
                \E c \in Callers :
                    /\ call[c].pc = "del"
                    /\ call[c].key = k
                    /\ IsExpired(call[c].entry, call[c].at)
                    /\ call'[c].how = "expired"]_vars

\* an expired entry was read and deleted, and the next read missed as well
C6_Witness ==
    LET f == call[FirstCaller]
    IN  /\ f.pc = "returned"
        /\ f.op = "getCachedResults"
        /\ f.how = "nil"
        /\ expiredSeen[f.key]
        /\ store[f.key].value = Nil
        /\ applied[f.key] # NoEntry
        /\ now <= applied[f.key].timestamp + 2 * MsPerSecond

\* the entry that the store holds under k and would serve now
Held(k) == IF IsEntryText(StoreRead(k)) THEN ParseEntry(StoreRead(k))
                                         ELSE NoEntry

\* C7: under any interleaving of cacheResults and getCachedResults on one
\* key the store holds nothing or the whole entry of the write applied last,
\* and an entry that has not expired is never removed by a concurrent
\* getCachedResults.
C7_NoRace ==
    /\ [](\A k \in DOMAIN store :
            store[k].value \in {Nil, NotJson, StringifyEntry(applied[k])})
    /\ [][\A k \in DOMAIN store :
            (Held(k) # NoEntry /\ ~IsExpired(Held(k), now))
                => store'[k].value # Nil]_vars

\* the responses the search pipeline can make of what the adapters answered
PipelineResponses(r) ==
    LET settled == AllSettled(r.google, r.amazon)
        aggregated == AggregateProductData(settled.products,
                                           settled.amazonProducts)
    IN  {SearchResponse(NormalizeProductData(aggregated, outcome),
                        Analysis(source, Field(r.body, "query").s,
                                 NormalizeProductData(aggregated, outcome)),
                        searchParams, r.cacheKey) :
            outcome \in NormalizeOutcomes, source \in AnalysisSources,
            searchParams \in {SearchParams(ok, r.body) : ok \in BOOLEAN}}

\* the products the two adapters returned between them
Found(r) ==
    Len(AllSettled(r.google, r.amazon).products)
    + Len(AllSettled(r.google, r.amazon).amazonProducts)

\* the response a request must end in when no cache has a say
Normally(r) ==
    IF r.body = NotJson THEN r.status = 500
    ELSE IF ~ValidBody(r.kind, r.body) THEN r.status = 400
    ELSE IF r.kind = "analyze"
         THEN r.status = 200
              /\ r.data \in {ProductAnalysis(source, r.body) :
                                source \in {"claude", "fallback"}}
    ELSE IF Found(r) = 0 THEN r.status = 404 /\ r.google.status # "idle"
    ELSE r.status = 200 /\ r.data \in PipelineResponses(r)

\* C8: with no cache store configured, cacheResults stores nothing and
\* completes without an error, getCachedResults misses for every key, and a
\* search or analyze request runs its whole pipeline and responds as it
\* would on a miss.
C8_NoStore ==
    ~redis =>
        /\ \A k \in DOMAIN store : applied[k] = NoEntry /\ ~expiredSeen[k]
        /\ LET f == call[FirstCaller]
           IN  \/ f.pc = "idle"
               \/ /\ f.pc = "returned"
                  /\ f.how = "unconfigured"
                  /\ f.result = IF f.op = "cacheResults" THEN Void ELSE Null
        /\ req.pc = "responded" => Normally(req)

\* a search request was answered from the pipeline, both cache calls having
\* done nothing
C8_Witness ==
    /\ ~redis
    /\ req.pc = "responded"
    /\ req.kind = "search"
    /\ req.status = 200
    /\ req.readHow = "unconfigured"
    /\ req.writeHow = "unconfigured"

\* C9: a failure of the store's get, setex or del, or of parsing what it
\* holds, does not reach the caller: getCachedResults returns a miss,
\* cacheResults completes, and the search or analyze request responds as it
\* would on a miss, not with an error.
C9_StoreFailureContained ==
    /\ LET f == call[FirstCaller]
       IN  (f.pc = "returned" /\ f.how = "error") =>
                f.result = IF f.op = "cacheResults" THEN Void ELSE Null
    /\ (req.pc = "responded"
        /\ (req.readHow = "error" \/ req.writeHow = "error")) =>
            /\ req.status \notin {400, 500}
            /\ Normally(req)
    /\ (req.pc = "responded" /\ req.status = 500) => req.body = NotJson

\* a request was answered 200 although its read and its write both failed
C9_Witness ==
    /\ req.pc = "responded"
    /\ req.status = 200
    /\ req.readHow = "error"
    /\ req.writeHow = "error"

\* one adapter rejected and the other returned a product
OneSurvives(r) ==
    \/ r.google.status = "rejected" /\ r.amazon.status = "fulfilled"
       /\ r.amazon.value # <<>>
    \/ r.amazon.status = "rejected" /\ r.google.status = "fulfilled"
       /\ r.google.value # <<>>

\* C10: the search request starts its two adapters together and they fail
\* independently: when one rejects and the other returns at least one
\* product, the request neither fails nor reports no results, and the
\* aggregation runs on the survivor's products with an empty list for the
\* other.
C10_FanOut ==
    /\ (req.google.status = "idle") <=> (req.amazon.status = "idle")
    /\ (req.pc = "fanout") =>
            req.google.status # "idle" /\ req.amazon.status # "idle"
    /\ (req.pc = "normalize" /\ OneSurvives(req)) =>
            /\ req.aggregatedProducts =
                    IF req.amazon.status = "rejected"
                    THEN AggregateProductData(req.google.value, <<>>)
                    ELSE AggregateProductData(<<>>, req.amazon.value)
            /\ req.aggregatedProducts # <<>>
    /\ (req.pc = "responded" /\ OneSurvives(req)) =>
            /\ req.status = 200
            /\ req.readHow # "hit" => req.data \in PipelineResponses(req)

\* the amazon adapter rejected, the other returned a product, and the
\* request was answered with the survivor's products
C10_Witness ==
    /\ req.pc = "responded"
    /\ req.amazon.status = "rejected"
    /\ req.google.value = <<IPhoneGoogle>>
    /\ req.status = 200
    /\ req.readHow # "hit"

\* C11: when every source adapter returns an empty list or fails, the
\* aggregation of the lists is the empty list, and the search request is
\* answered 404 (no results) straight from the fan-out: it never reaches
\* the normalization, the analysis generators or the cache write.
C11_NoResults ==
    /\ [](/\ AggregateProductData(<<>>, <<>>) = <<>>
          /\ (req.kind = "search"
              /\ req.pc \in {"normalize", "analysis", "cacheWrite"}) =>
                    Found(req) > 0
          /\ (req.pc = "responded" /\ req.kind = "search"
              /\ req.google.status # "idle" /\ Found(req) = 0) =>
                    /\ req.status = 404
                    /\ req.data = Null
                    /\ req.writeHow = "")
    /\ [][(req.pc = "fanout" /\ req'.pc # "fanout" /\ Found(req') = 0) =>
            (req'.pc = "responded" /\ req'.status = 404)]_vars

\* one adapter returned an empty list, the other failed, and the request
\* was answered 404
C11_Witness ==
    /\ req.pc = "responded"
    /\ req.google = Adapter("fulfilled", <<>>)
    /\ req.amazon.status = "rejected"
    /\ req.status = 404

\* C12: a search request never succeeds with no product: every 200 response
\* that the pipeline produced (one not served from the cache) carries a
\* non-empty product list, whatever the normalization and the analysis
\* generators return or fail with.
C12_NeverSilentlyEmpty ==
    (req.pc = "responded" /\ req.kind = "search" /\ req.status = 200
     /\ req.readHow # "hit") =>
        Field(req.data, "products") # JsArr(<<>>)

\* the ways of arranging n things
Arrangements(n) ==
    {f \in [1..n -> 1..n] : \A i, j \in 1..n : f[i] = f[j] => i = j}

\* C13: the list aggregateProductData returns holds the deduplicated and
\* enriched products, each once, by non-increasing score, and products of
\* equal score stand in the order deduplication produced them in.
C13_StableByScore ==
    stage = "done" =>
        /\ Len(enrichedProducts) = Len(deduplicatedProducts)
        /\ \A i \in 1..Len(enrichedProducts) :
                enrichedProducts[i].id = deduplicatedProducts[i].id
        /\ Len(result) = Len(enrichedProducts)
        /\ \E at \in Arrangements(Len(result)) :
              /\ \A i \in 1..Len(result) : result[i] = enrichedProducts[at[i]]
              /\ \A i, j \in 1..Len(result) :
                    i < j =>
                        LET si == CalculateProductScore(enrichedProducts[at[i]])
                            sj == CalculateProductScore(enrichedProducts[at[j]])
                        IN  /\ si >= sj
                            /\ si = sj => at[i] < at[j]

\* the sort moved a product to the front of two that score the same
C13_Witness ==
    /\ stage = "done"
    /\ Len(result) = 3
    /\ result # enrichedProducts
    /\ CalculateProductScore(result[2]) = CalculateProductScore(result[3])
    /\ CalculateProductScore(result[1]) > CalculateProductScore(result[2])

\* the score the formula gives, in points, with the price-tier bonus given;
\* both sides are scaled by 100 * RatingUnit so that no term is a fraction
IsScoreWithBonus(product, points, bonus) ==
    LET discountOrZero == IF product.discount = UndefinedNum THEN 0
                          ELSE product.discount
        sourceBonus == IF product.source = "amazon"
                          /\ product.affiliateLink # Undefined
                          /\ product.affiliateLink # ""
                       THEN 5 ELSE 0
    IN  points * 100 * RatingUnit =
            ScoreUnit * (product.rating * 20 * 100
                         + RatingUnit * (Min(product.reviewCount, 1000)
                                         + discountOrZero * 50
                                         + Min(Len(product.features) * 2, 10)
                                            * 100
                                         + bonus * 100
                                         + sourceBonus * 100))

\* C14 as stated: for every Product with non-negative price the score is
\* rating*20 + min(reviewCount/100, 10) + (discount or 0)/2
\* + min(features.length*2, 10) + price-tier bonus + source bonus, the
\* price-tier bonus being 5 for every price below 100, 3 from 100 up to but
\* not including 300 and 0 otherwise, the source bonus 5 exactly when the
\* source is amazon and an affiliate link is present.
C14_ScoreFormula ==
    score # NotScored =>
        IsScoreWithBonus(scoredProduct, score,
                         IF scoredProduct.price < 100 THEN 5
                         ELSE IF scoredProduct.price < 300 THEN 3 ELSE 0)

\* C14, amended: the same sum, the price-tier bonus being 5 for a price
\* above 0 and below 100, 3 from 100 up to but not including 300, and 0
\* otherwise, a price of 0 included.
C14_ScoreFormulaPricedOnly ==
    score # NotScored =>
        IsScoreWithBonus(scoredProduct, score,
                         IF scoredProduct.price = 0 THEN 0
                         ELSE IF scoredProduct.price < 100 THEN 5
                         ELSE IF scoredProduct.price < 300 THEN 3 ELSE 0)

\* a record with no price, more than 1000 reviews, more than five features,
\* a discount and an amazon affiliate link has been scored
C14_Witness ==
    /\ score # NotScored
    /\ scoredProduct.price = 0
    /\ scoredProduct.reviewCount > 1000
    /\ Len(scoredProduct.features) > 5
    /\ scoredProduct.discount = 15
    /\ scoredProduct.source = "amazon"
    /\ scoredProduct.affiliateLink = "aff://x"
    /\ scoredProduct.rating = Tenths(45)

\* the scored record with another rating, with another price
Rated(rating) == [scoredProduct EXCEPT !.rating = rating]
Priced(price) == [scoredProduct EXCEPT !.price = price]

\* C15 as stated: of two Products equal in every field except rating, the
\* one with the higher rating scores strictly higher; of two Products
\* equal in every field except price, the one with the higher price has a
\* price-tier bonus that is not larger.
C15_Monotone ==
    score # NotScored =>
        /\ \A rating \in ScoreRatings :
                rating > scoredProduct.rating =>
                    CalculateProductScore(Rated(rating)) > score
        /\ \A price \in ScorePrices :
                price > scoredProduct.price =>
                    /\ PriceTierBonus(Priced(price))
                            <= PriceTierBonus(scoredProduct)
                    /\ CalculateProductScore(Priced(price)) <= score

\* C15, amended: the same, the two prices being above 0; a record with
\* price 0 has no price-tier bonus, so that any price below 300 has a
\* larger bonus than price 0.
C15_MonotoneWhenPriced ==
    score # NotScored =>
        /\ \A rating \in ScoreRatings :
                rating > scoredProduct.rating =>
                    CalculateProductScore(Rated(rating)) > score
        /\ \A price \in ScorePrices :
                (price > scoredProduct.price /\ scoredProduct.price > 0) =>
                    /\ PriceTierBonus(Priced(price))
                            <= PriceTierBonus(scoredProduct)
                    /\ CalculateProductScore(Priced(price)) <= score
        /\ \A price \in ScorePrices :
                (scoredProduct.price = 0 /\ price > 0 /\ price < 300) =>
                    PriceTierBonus(Priced(price))
                        > PriceTierBonus(scoredProduct)

\* a record rated 3.0 and priced 50 has been scored
C15_Witness ==
    /\ score # NotScored
    /\ scoredProduct.rating = Tenths(30)
    /\ scoredProduct.price = 50
    /\ CalculateProductScore(Rated(Tenths(40))) > score
    /\ PriceTierBonus(Priced(500)) < PriceTierBonus(scoredProduct)

\* price, originalPrice and discount of a record
PricingOf(product) ==
    [price |-> product.price, originalPrice |-> product.originalPrice,
     discount |-> product.discount]

\* C16 as stated: mergeProducts(base, other) takes price, originalPrice and
\* discount from other only when other's price is non-zero and strictly
\* lower than base's price; in every other case, equal prices included, the
\* merged record keeps base's price, originalPrice and discount.
C16_PriceFromLower ==
    merged # NotMerged =>
        PricingOf(merged) =
            IF product2.price # 0 /\ product2.price < product1.price
            THEN PricingOf(product2)
            ELSE PricingOf(product1)

\* C16, amended: other's three fields are taken when other's price is
\* non-zero and base's price is 0 or strictly higher; in every other case,
\* equal prices included, base's three fields are kept.
C16_PriceFromLowerOrOnly ==
    merged # NotMerged =>
        PricingOf(merged) =
            IF product2.price # 0
               /\ (product1.price = 0 \/ product2.price < product1.price)
            THEN PricingOf(product2)
            ELSE PricingOf(product1)

\* a base without a price has been merged with a discounted offer
C16_Witness ==
    /\ merged # NotMerged
    /\ product1.price = 0
    /\ product2.price = 350
    /\ product2.discount = 13
    /\ merged.price = 350
    /\ merged.discount = 13

\* C18: mergeProducts(base, other) gives the merged record other's rating
\* when base has none (0) and other has one; the average of the two
\* ratings and the larger of the two review counts when both have one;
\* base's rating and review count, unchanged, when other has none.
C18_MergedRating ==
    merged # NotMerged =>
        /\ (product1.rating = 0 /\ product2.rating # 0) =>
                merged.rating = product2.rating
        /\ (product1.rating # 0 /\ product2.rating # 0) =>
                /\ 2 * merged.rating = product1.rating + product2.rating
                /\ merged.reviewCount >= product1.reviewCount
                /\ merged.reviewCount >= product2.reviewCount
                /\ merged.reviewCount
                        \in {product1.reviewCount, product2.reviewCount}
        /\ product2.rating = 0 =>
                /\ merged.rating = product1.rating
                /\ merged.reviewCount = product1.reviewCount

\* a record rated 4.4 by 120 has been merged with one rated 4.0 by 80
C18_Witness ==
    /\ merged # NotMerged
    /\ product1.rating = Tenths(44)
    /\ product1.reviewCount = 120
    /\ product2.rating = Tenths(40)
    /\ product2.reviewCount = 80
    /\ merged.rating = Tenths(42)
    /\ merged.reviewCount = 120

\* C17: after any sequence of merges of deduplicateProducts, the price,
\* originalPrice and discount of each representative are those of one
\* record of its group, the one with the lowest non-zero price of the
\* group when a record of the group has a price; never the price of one
\* record with the originalPrice or discount of another.
C17_PricingOfOneRecord ==
    /\ Len(groups) = Len(uniqueProducts)
    /\ \A i \in 1..Len(uniqueProducts) :
          LET members == groups[i]
              priced == {k \in 1..Len(members) : members[k].price # 0}
          IN  \E k \in 1..Len(members) :
                /\ PricingOf(uniqueProducts[i].value) = PricingOf(members[k])
                /\ priced # {} =>
                        /\ k \in priced
                        /\ \A j \in priced :
                                members[k].price <= members[j].price

\* offers at 999, at 899 (once 999, 10 % off) and at 949 (once 1099, 14 %
\* off) arrived in this order and were merged into one representative
C17_Witness ==
    /\ stage = "returned"
    /\ Len(groups) = 1
    /\ groups[1] = <<IPhoneGoogle, IPhoneGoogleSale, IPhoneAmazon>>
    /\ PricingOf(deduplicatedProducts[1]) = PricingOf(IPhoneGoogleSale)

\* a record of the amazon source that carries an affiliate link
HasAmazonLink(product) ==
    /\ product.source = "amazon"
    /\ product.affiliateLink # Undefined
    /\ product.affiliateLink # ""

\* C19: in every arrival order, a representative whose group holds an
\* amazon record with an affiliate link has the affiliateLink and the asin
\* of an amazon record of its group.
C19_AmazonLinkWins ==
    /\ Len(groups) = Len(uniqueProducts)
    /\ \A i \in 1..Len(uniqueProducts) :
          LET members == groups[i]
              links == {k \in 1..Len(members) : HasAmazonLink(members[k])}
              representative == uniqueProducts[i].value
          IN  links # {} =>
                \E k \in links :
                    /\ representative.affiliateLink
                            = members[k].affiliateLink
                    /\ representative.asin = members[k].asin

\* the amazon record arrived first and a google record with a link of its
\* own was merged into it
C19_Witness ==
    /\ stage = "returned"
    /\ Len(groups) = 1
    /\ groups[1] = <<IPhoneAmazon, IPhoneGoogle, IPhoneGoogleSale>>
    /\ deduplicatedProducts[1].affiliateLink = "aff://i"
    /\ deduplicatedProducts[1].asin = "B0IPHONE"

\* d is the integer nearest to (original - current) / original * 100, the
\* larger one of two that are equally near
IsRoundedPercentage(d, original, current) ==
    /\ (2 * d - 1) * original <= 200 * (original - current)
    /\ 200 * (original - current) < (2 * d + 1) * original

\* C20: the discount is the integer round((originalPrice - price) /
\* originalPrice * 100) whenever originalPrice > price > 0 (originalPrice
\* 100 and price 80 give exactly 20), it lies between 0 and 100 when there
\* is one, and there is no positive discount when originalPrice is not
\* greater than price; stated of calculateDiscount of utils/helpers.ts and
\* of AmazonAPIClient.calculateDiscount, which returns undefined where the
\* former returns 0.
C20_Discount ==
    /\ discount # NotComputed =>
            /\ (originalPrice > currentPrice /\ currentPrice > 0) =>
                    IsRoundedPercentage(discount, originalPrice,
                                        currentPrice)
            /\ (originalPrice = 100 /\ currentPrice = 80) => discount = 20
            /\ discount >= 0
            /\ discount <= 100
            /\ originalPrice <= currentPrice => discount = 0
    /\ amazonDiscount # NotComputed =>
            /\ (originalPrice # UndefinedNum /\ currentPrice # UndefinedNum
                /\ originalPrice > currentPrice /\ currentPrice > 0) =>
                    IsRoundedPercentage(amazonDiscount, originalPrice,
                                        currentPrice)
            /\ (originalPrice = 100 /\ currentPrice = 80) =>
                    amazonDiscount = 20
            /\ amazonDiscount # UndefinedNum =>
                    amazonDiscount >= 0 /\ amazonDiscount <= 100
            /\ (originalPrice = UndefinedNum \/ currentPrice = UndefinedNum
                \/ originalPrice <= currentPrice) =>
                    amazonDiscount = UndefinedNum

\* the titles' lower-cased word sets have Jaccard similarity 0.8 or more
SimilarTitles(a, b) ==
    LET wordsA == Range(SplitWhiteSpace(ToLowerCase(a.title)))
        wordsB == Range(SplitWhiteSpace(ToLowerCase(b.title)))
    IN  5 * Cardinality(wordsA \cap wordsB)
            >= 4 * Cardinality(wordsA \cup wordsB)

\* the representatives that the product being visited is similar to
SimilarTo(product) ==
    {i \in 1..Len(uniqueProducts) :
        SimilarTitles(product, uniqueProducts[i].value)}

\* the forEach callback runs on the next product
Visiting == stage = "dedup" /\ pos <= Len(allProducts) /\ pos' = pos + 1

\* C21: a product that is not a duplicate of any current representative is
\* added as a new representative, and no existing representative is
\* removed or replaced: the Map grows by one entry and keeps the entries
\* it had.
C21_AddedNotReplaced ==
    [][(Visiting /\ SimilarTo(allProducts[pos]) = {}) =>
            /\ Len(uniqueProducts') = Len(uniqueProducts) + 1
            /\ uniqueProducts'[Len(uniqueProducts')].value = allProducts[pos]
            /\ \A i \in 1..Len(uniqueProducts) :
                    uniqueProducts'[i] = uniqueProducts[i]]_vars

\* C22: each incoming product is compared with the representatives in
\* insertion order and merged into exactly one, the first whose title is
\* 0.8 or more similar to its own (0.8 itself counts); the Map gets no new
\* entry and its other entries stay as they are.
C22_MergedIntoFirstSimilar ==
    [][(Visiting /\ SimilarTo(allProducts[pos]) # {}) =>
            LET similar == SimilarTo(allProducts[pos])
                first == CHOOSE i \in similar : \A j \in similar : i <= j
            IN  /\ Len(uniqueProducts') = Len(uniqueProducts)
                /\ uniqueProducts'[first] =
                        [key |-> uniqueProducts[first].key,
                         value |-> MergeProducts(uniqueProducts[first].value,
                                                 allProducts[pos])]
                /\ \A i \in 1..Len(uniqueProducts) :
                        i # first => uniqueProducts'[i] = uniqueProducts[i]]_vars

\* a product similar to both representatives (0.8 to the first, 5/6 to the
\* second) has been merged into the first
C22_Witness ==
    /\ allProducts = <<IPhoneGoogle, IPhoneGoogleMax, IPhoneAmazon>>
    /\ pos = 4
    /\ groups = <<(<<IPhoneGoogle, IPhoneAmazon>>), (<<IPhoneGoogleMax>>)>>
    /\ uniqueProducts[1].value = MergeProducts(IPhoneGoogle, IPhoneAmazon)
    /\ uniqueProducts[2].value = IPhoneGoogleMax

\* C23: after any sequence of merges, the id, title, source, link, brand,
\* category and currency of a representative are those of the first-seen
\* record of its group, also when the price of a later record was adopted.
C23_AnchorFields ==
    /\ Len(groups) = Len(uniqueProducts)
    /\ \A i \in 1..Len(uniqueProducts) :
          LET representative == uniqueProducts[i].value
              anchor == groups[i][1]
          IN  /\ representative.id = anchor.id
              /\ representative.title = anchor.title
              /\ representative.source = anchor.source
              /\ representative.link = anchor.link
              /\ representative.brand = anchor.brand
              /\ representative.category = anchor.category
              /\ representative.currency = anchor.currency

\* the google record arrived first and took the amazon record's price and
\* affiliate link
C23_Witness ==
    /\ stage = "returned"
    /\ groups = <<(<<IPhoneGoogle, IPhoneAmazon>>)>>
    /\ deduplicatedProducts[1].id = "g2"
    /\ deduplicatedProducts[1].source = "google"
    /\ deduplicatedProducts[1].price = 949
    /\ deduplicatedProducts[1].affiliateLink = "aff://i"

\* C28: after every step of deduplicateProducts, and in its output, no two
\* representatives have titles of similarity 0.8 or more; the output has
\* at most as many products as the input and is not empty unless the
\* input is.
C28_NoSimilarRepresentatives ==
    /\ \A i, j \in 1..Len(uniqueProducts) :
            i # j => ~SimilarTitles(uniqueProducts[i].value,
                                    uniqueProducts[j].value)
    /\ stage = "dedup" => Len(uniqueProducts) <= pos - 1
    /\ stage \in {"returned", "enrich", "sort", "done"} =>
            /\ deduplicatedProducts = MapValues(uniqueProducts)
            /\ Len(deduplicatedProducts) <= Len(allProducts)
            /\ allProducts # <<>> => deduplicatedProducts # <<>>

\* three records were reduced to two representatives
C28_Witness ==
    /\ stage = "returned"
    /\ Len(allProducts) = 3
    /\ Len(deduplicatedProducts) = 2
    /\ \E i \in 1..2 : Len(groups[i]) = 2

\* the texts of the rules that fire, in the order of the rules
IsSelection(list, texts, fires) ==
    /\ Len(list) = Cardinality(fires)
    /\ \A k \in 1..Len(list) :
        list[k] = texts[CHOOSE i \in fires :
                            Cardinality({j \in fires : j <= i}) = k]

ProsTexts(product) ==
    <<"Highly rated by customers", "Extensively reviewed and tested",
      "Great value with " \o ToString(product.discount) \o "% discount",
      "Feature-rich product", "Trusted " \o Text(product.brand) \o " brand">>

ProsRules(product) ==
    <<product.rating >= Tenths(45), product.reviewCount > 1000,
      product.discount # UndefinedNum /\ product.discount > 15,
      Len(product.features) > 5, product.brand # <<>> >>

ConsTexts ==
    <<"Mixed customer reviews", "Limited customer feedback", "Premium pricing",
      "No significant discounts available", "Basic feature set">>

ConsRules(product) ==
    <<0 < product.rating /\ product.rating < Tenths(35),
      0 < product.reviewCount /\ product.reviewCount < 100,
      product.price > 500,
      product.discount = UndefinedNum \/ product.discount < 5,
      Len(product.features) < 3>>

Firing(rules) == {i \in 1..Len(rules) : rules[i]}

\* C24: enrichProductData gives a product without pros one text for every
\* pros rule that fires, in the order of the rules, and the one fallback text
\* exactly when none fires; likewise for cons; pros and cons the product came
\* with are kept; afterwards neither list is empty
C24_ProsAndCons ==
    enrichOutput # <<>> =>
        LET given == enrichInput
            out == enrichOutput[1]
            pros == Firing(ProsRules(given))
            cons == Firing(ConsRules(given))
        IN  /\ given.pros # <<>> => out.pros = given.pros
            /\ given.cons # <<>> => out.cons = given.cons
            /\ given.pros = <<>> =>
                IF pros = {} THEN out.pros = <<"Good value for money">>
                ELSE IsSelection(out.pros, ProsTexts(given), pros)
            /\ given.cons = <<>> =>
                IF cons = {} THEN out.cons = <<"May have better alternatives">>
                ELSE IsSelection(out.cons, ConsTexts, cons)
            /\ out.pros # <<>>
            /\ out.cons # <<>>

\* a product without pros and cons for which every pros rule fires and no
\* cons rule does has been enriched
C24_Witness ==
    /\ enrichOutput # <<>>
    /\ enrichInput.pros = <<>>
    /\ enrichInput.cons = <<>>
    /\ Firing(ProsRules(enrichInput)) = 1..5
    /\ Firing(ConsRules(enrichInput)) = {}
    /\ Len(enrichOutput[1].pros) = 5

\* C25: after enrichProductData the features are the product's features,
\* preceded by the discount tag exactly when the discount is above 10, and
\* before that by the rating tag exactly when the rating is at least 4.5 and
\* the review count above 1000
C25_FeatureTags ==
    enrichOutput # <<>> =>
        LET given == enrichInput
            topRated == given.rating >= Tenths(45) /\ given.reviewCount > 1000
            onSale == given.discount # UndefinedNum /\ given.discount > 10
        IN  enrichOutput[1].features =
                (IF topRated THEN <<"Top Rated by Customers">> ELSE <<>>)
                \o (IF onSale
                    THEN <<ToString(given.discount) \o "% OFF - Limited Time">>
                    ELSE <<>>)
                \o given.features

\* a product with features, a discount above 10, a rating of 4.5 and more
\* than 1000 reviews has been enriched
C25_Witness ==
    /\ enrichOutput # <<>>
    /\ enrichInput.features # <<>>
    /\ enrichInput.discount > 10
    /\ enrichInput.rating >= Tenths(45)
    /\ enrichInput.reviewCount > 1000
    /\ Len(enrichOutput[1].features) = Len(enrichInput.features) + 2

\* C30: any two starts of performSearch are at least requestDelay apart
C30_SearchesSpaced ==
    \A i, j \in 1..Len(upstream) :
        i < j => upstream[j] - upstream[i] >= RequestDelay

\* C26: when getCachedResults returns an entry, the search or analyze request
\* is answered at once with 200 and exactly that entry: no adapter is
\* started, nothing is aggregated, analysed or written to the cache
C26_HitShortCircuits ==
    /\ []((req.pc = "responded" /\ req.readHow = "hit") =>
            /\ req.status = 200
            /\ req.google = NotStarted
            /\ req.amazon = NotStarted
            /\ req.writeHow = "")
    /\ [][(req.pc = "cacheRead" /\ call[FirstCaller].pc = "returned"
           /\ call[FirstCaller].how = "hit") =>
            /\ req'.pc = "responded"
            /\ req'.status = 200
            /\ req'.data = call[FirstCaller].result
            /\ req'.readHow = "hit"
            /\ call' = call]_vars

\* a search request sent a second time was answered from the cache with
\* the response to the first
C26_Witness ==
    /\ req.pc = "responded"
    /\ req.kind = "search"
    /\ req.n = 2
    /\ req.readHow = "hit"
    /\ req.status = 200
    /\ req.data \in PipelineResponses(req)

\* C27: the analysis generators of a search request are invoked in the
\* order Claude, Gemini, basic analysis, each only after the one before it
\* failed, and a request that reached them is answered 200 with an analysis
C27_GeneratorsInOrder ==
    /\ \E n \in 0..3 :
            req.generators = SubSeq(<<"claude", "gemini", "basic">>, 1, n)
    /\ (req.pc = "responded" /\ req.generators # <<>>) =>
            /\ req.status = 200
            /\ Field(req.data, "analysis") # JsUndefined

\* a step calls cacheResults
CacheResultsCalled ==
    /\ call'[FirstCaller].op = "cacheResults"
    /\ call'[FirstCaller] # call[FirstCaller]
    /\ call[FirstCaller].op # "cacheResults"

\* C29: a search request calls cacheResults only when its pipeline has
\* produced the response, once, with that response and a TTL of 3600 s; a
\* request answered 400, 404 or 500 or from the cache has not called it
C29_WriteOnlyOnSuccess ==
    /\ []((req.kind = "search" /\ req.pc = "responded") =>
            IF req.status = 200 /\ req.readHow # "hit"
            THEN req.writeHow \in {"unconfigured", "stored", "error"}
            ELSE req.writeHow = "")
    /\ []((req.kind = "search" /\ call[FirstCaller].op = "cacheResults") =>
            /\ req.pc \in {"cacheWrite", "responded"}
            /\ req.pc = "responded" => req.writeHow # ""
            /\ call[FirstCaller].pc = "setex" =>
                    /\ call[FirstCaller].key = req.cacheKey
                    /\ call[FirstCaller].data = req.response
                    /\ call[FirstCaller].ttl = SearchTtl)
    /\ [][(req'.kind = "search" /\ CacheResultsCalled) =>
            /\ req.pc \in {"analysis", "claudeProductAnalysis", "gemini"}
            /\ req'.pc = "cacheWrite"
            /\ Field(req'.response, "analysis") = req'.analysis
            /\ Field(req'.response, "products") # JsUndefined
            /\ call'[FirstCaller] =
                    CacheResultsFrame(req'.cacheKey, req'.response, SearchTtl)
         ]_vars
    /\ [][(req.kind = "search" /\ req.pc = "cacheWrite"
           /\ req'.pc = "responded") =>
            /\ req'.status = 200
            /\ req'.data = req.response
            /\ (req'.writeHow = "stored") =>
                    applied[req.cacheKey] =
                        CacheEntry(req.response, applied[req.cacheKey].timestamp,
                                   SearchTtl)]_vars

\* a search request that missed the cache was answered 200 and its response
\* is stored for 3600 s; sent again, it was answered from the cache and
\* nothing was written
C29_Witness ==
    /\ req.pc = "responded"
    /\ req.kind = "search"
    /\ req.n = 2
    /\ req.readHow = "hit"
    /\ req.writeHow = ""
    /\ applied[req.cacheKey].data = req.data
    /\ applied[req.cacheKey].ttl = SearchTtl

====
